---------------------------- MODULE Spec2Model ----------------------------
(***************************************************************************)
(* State-machine model of the storefront glue code of the Horizon theme:   *)
(*   - the UpsellProducts custom element (assets/upsell-products.js),      *)
(*   - the product form and its add-to-cart control                        *)
(*     (assets/product-form.js),                                           *)
(*   - the global bridge manager around window.UdoPaintsEditor.            *)
(* Each subsystem has its own specification over the shared variables:     *)
(* Spec (the upsell component), SpecData, SpecPrice, SpecHide and SpecRace *)
(* (the same component on malformed page data, its price sync, its hide    *)
(* conditions and its overlapping readiness checks), SpecWait, SpecForm,   *)
(* SpecProps, SpecButton, SpecBridge, SpecDetect, SpecMatcher, SpecParse,  *)
(* SpecCart.                                                               *)
(***************************************************************************)
EXTENDS Integers, Sequences, FiniteSets, TLC

VARIABLES
    \* ---- UpsellProducts component and its page -------------------------
    status,        \* "constructed" | "connected" | "disconnected"
    pc,            \* position of init(): "idle" | "wait" | "check" | "done",
                   \* or "failed" when init() ended with an exception
    windowReady,   \* window.UdoPaintsEditorManager?.isReady
    mgrRejected,   \* waitForManager rejected (history of the catch branch)
    isReady,       \* UdoPaintsEditorManager.#isReady (module singleton)
    subscribed,    \* the callback handed to onStateChange is registered
    pending,       \* number of readiness checks awaiting the editor's answer
    checkCap,      \* how many of them the specification lets be in flight
    latest,        \* the most recently issued check: whether it still awaits
                   \* its answer, and the answer it got (history)
    lastAnswer,    \* answer of the most recently completed readiness check
    syncVariants,  \* dataset.syncVariants === 'true'
    badBlock,      \* the embedded data block whose JSON is malformed, or "none"
    dataLoaded,    \* #initOptionsAndVariants has run, as far as the JSON let it
    cbListening,   \* checkbox 'change' / 'checkbox-unchecked' listeners live
    docListening,  \* document variant-selected / cart-update listeners live
    checked,       \* checkbox.checked per upsell item
    hidden,        \* #hiddenUpsellProducts
    display,       \* item.style.display per item ("" = not set inline)
    orig,          \* #originalDisplayValue
    modeAtHide,    \* per item: its display when it was last hidden (history)
    heard,         \* variant of the last handled variant-selected (history)
    best,          \* #bestMatchUpsellVariants: item -> Variant or NoVariant
    priceBlock,    \* per item: text of its price elements, compare-price display
    inputs,        \* children of the add-to-cart form that are named inputs
    selected,      \* item has class upsell-product__item--selected
    btnSelected,   \* add-to-cart button has class btn--upsell-selected
    mainSelected,  \* the variant of the main product the shopper has selected
    lastOp,        \* the last operation that ran, "other" when no property asks (history)
    lastHandler,   \* handler of the instance that ran after disconnection
    shownByCall,   \* an explicit showUpsellProduct call since the last check
    \* ---- #detectUpsellProducts (product-form.js) -------------------------
    dpc,           \* "input" | "done"
    dIn,           \* formJsonData handed to #detectUpsellProducts
    dOut,          \* what it returned, and whether it called the bridge's onError
    \* ---- the global bridge manager around window.UdoPaintsEditor --------
    editorPresent, \* window.UdoPaintsEditor is defined
    bReady,        \* manager.isReady
    readyCallbacks,\* manager.readyCallbacks: the wrappers queued by onReady
    timerArmed,    \* a setTimeout of checkAvailability is pending
    polls,         \* calls of checkAvailability so far (counted up to PollCap)
    call,          \* per wrapper: state of its promise and what it resolved to
    \* ---- ProductFormComponent and its AddToCartComponent ---------------
    subs,          \* per handleSubmit invocation: where it is suspended, and
                   \* what it has done so far (see NewSub)
    disabledAttr,  \* the button's `disabled` attribute: "none" | "" | "true"
    spinner,       \* the button has class is-loading
    added,         \* the button has class atc-added
    errorShown,    \* addToCartTextError is not hidden
    liveRegion,    \* text of the live region: "" | "error" | "added"
    refLive,       \* the timer #timeout refers to is pending
    strayTimers,   \* pending error timers #timeout no longer refers to
    okTimers,      \* pending 5000 ms timers that clear the live region
    disabledBySubmit, \* handleStartedAddingToCart ran and no enable() since
    \* ---- VariantMatcher applied to inputs -------------------------------
    mIn,           \* the arguments: upsell variants, option names, main data
    mOut,           \* the method applied last and what it returned
    \* ---- HideConditionManager.parseHideConditions applied to an input ----
    pIn,           \* the entries the configuration string is written from
    pOut,           \* what parseHideConditions returned for it
    \* ---- CartUpsellComponent ---------------------------------------------
    storage,       \* sessionStorage["cart-upsell-dismissed"]: a string or NoKey
    itemDisplay,   \* per item: its inline style.display
    widgetDisplay, \* style.display of the component itself
    flagPresent,   \* the .cart-upsell__flag element is in the component
    flagAttr,      \* its data-dismissed-products attribute
    observerPending, \* the MutationObserver has a flag removal to deliver
    addPc,         \* per item: "idle" or "fetch" (handleAddToCart suspended)
    loading,       \* per item: its add button is disabled with is-loading
    resetArmed,    \* per item: the BUTTON_RESET_DELAY timer is pending
    lastK,          \* the last step of the cart upsell and its outcome (history)
    \* ---- UdoPaintsEditorManager.waitForManager, one call -------------------
    wState,        \* its promise: "idle" | "pending" | "resolved" | "rejected"
    attempts,      \* the closure's attempts counter
    wTimer,        \* a setTimeout(checkManager, #attemptInterval) is pending
    wManagerReady, \* window.UdoPaintsEditorManager?.isReady
    settles,       \* calls of resolve() or reject() so far (history)
    wClock,        \* milliseconds of timer delay since the call (history)
    readyChecks,   \* checks that found the manager ready (history)
    \* ---- #getLineItemProperties and the rest of handleSubmit ---------------
    hIn,           \* the feature and what onAddToCart resolved to
    hOut,          \* whether it threw, the properties, whether a request went out
    \* ---- AddToCartComponent and the bridge's state changes ------------------
    aReady,        \* window.UdoPaintsEditorManager.isReady
    aQueued,       \* its handlers waiting in the manager's readyCallbacks
    aHandlers,     \* its handlers registered with the editor's onStateChange
    aDisabled,     \* refs.addToCartButton.disabled
    aUpload,       \* the last upload-state notification: "none" | "loading" | "success"
    aLast,         \* the state of the last notification of any kind
    aAdding        \* a handleSubmit is between handleStartedAddingToCart and
                   \* handleSuccessfulAddToCart

uvars == <<status, pc, windowReady, mgrRejected, isReady, subscribed,
           pending, checkCap, latest, lastAnswer, syncVariants, badBlock, dataLoaded,
           cbListening, docListening, checked, hidden, display, orig, modeAtHide, heard,
           best, priceBlock, inputs, selected, btnSelected, mainSelected,
           lastOp, lastHandler, shownByCall>>

dvars == <<dpc, dIn, dOut>>

bvars == <<editorPresent, bReady, readyCallbacks, timerArmed, polls, call>>

fvars == <<subs, disabledAttr, spinner, added, errorShown, liveRegion, refLive,
           strayTimers, okTimers, disabledBySubmit>>

mvars == <<mIn, mOut>>

pvars == <<pIn, pOut>>

wvars == <<wState, attempts, wTimer, wManagerReady, settles, wClock,
           readyChecks>>

hvars == <<hIn, hOut>>

avars == <<aReady, aQueued, aHandlers, aDisabled, aUpload, aLast, aAdding>>

kvars == <<storage, itemDisplay, widgetDisplay, flagPresent, flagAttr,
           observerPending, addPc, loading, resetArmed, lastK>>

vars == <<uvars, dvars, bvars, fvars, mvars, pvars, kvars, wvars, hvars, avars>>

\* what the actions of one subsystem leave alone
notU == <<dvars, bvars, fvars, mvars, pvars, kvars, wvars, hvars, avars>>
notD == <<uvars, bvars, fvars, mvars, pvars, kvars, wvars, hvars, avars>>
notB == <<uvars, dvars, fvars, mvars, pvars, kvars, wvars, hvars, avars>>
notF == <<uvars, dvars, bvars, mvars, pvars, kvars, wvars, hvars, avars>>
notM == <<uvars, dvars, bvars, fvars, pvars, kvars, wvars, hvars, avars>>
notP == <<uvars, dvars, bvars, fvars, mvars, kvars, wvars, hvars, avars>>
notK == <<uvars, dvars, bvars, fvars, mvars, pvars, wvars, hvars, avars>>
notW == <<uvars, dvars, bvars, fvars, mvars, pvars, kvars, hvars, avars>>
notH == <<uvars, dvars, bvars, fvars, mvars, pvars, kvars, wvars, avars>>
notA == <<uvars, dvars, bvars, fvars, mvars, pvars, kvars, wvars, hvars>>

----------------------------------------------------------------------------
(* Bounds of the model *)

\* readiness checks of editor state changes that may be in flight at once
MaxPending == 1

\* variants of the upsell product handed to the VariantMatcher
MaxVariants == 3

\* entries of the hide-conditions string
MaxEntries == 3

\* handleSubmit invocations that may be in progress at once
MaxSubmits == 2

\* readiness checks in flight at once where the claim is about their overlap
MaxOverlap == 2

\* clicks on the add-to-cart button that pass the validity check
MaxClicks == 4

\* timers of one kind that may be pending at once
MaxTimers == 2

\* availability checks of the bridge manager that the model counts
PollCap == 52

(* Program constants *)

\* UdoPaintsEditorManager.#maxAttempts: the attempt bound of waitForManager
maxAttempts == 50

\* UdoPaintsEditorManager.#attemptInterval, in milliseconds
attemptInterval == 100

\* UPSELL_PRODUCT_PREFIX, as the one-token string it is matched as
UPSELL_PRODUCT_PREFIX == <<"_upsell_variant_">>

----------------------------------------------------------------------------
(* Page data: what the Liquid templates render for the component. *)

NoVariant == [id |-> "null"]
NoValue == "null"

\* the checkboxes, in document order (this.#checkboxes)
Checkboxes == <<"u1", "u2">>
Items == {Checkboxes[k] : k \in 1..Len(Checkboxes)}

\* text of the item's h4 (product name shown to the shopper)
ItemTitle == [u1 |-> " Extra Brush ", u2 |-> "Gift Wrap"]

\* display mode the stylesheet gives each item while no inline style is set
CssDisplay == [u1 |-> "flex", u2 |-> "block"]

\* script[data-main-product-options] / script[data-main-product-variants]
MainProductOptionsJson == << [name |-> "Size", position |-> 1] >>
MainProductVariantsJson ==
    << [id |-> "m1", options |-> <<"Small">>],
       [id |-> "m2", options |-> <<"Large">>] >>
MainVariantIds == {"m1", "m2"}

\* script[data-upsell-variants] / script[data-upsell-option-names] per item
\* compare_at_price of a variant that has none (JSON null)
NullPrice == -1

UpsellVariantsJson ==
    [u1 |-> << [id |-> "v11", name |-> "Brush S", options |-> <<"small">>,
                price |-> 500, compare_at_price |-> 700],
               [id |-> "v12", name |-> "Brush L", options |-> <<"LARGE">>,
                price |-> 900, compare_at_price |-> 900] >>,
     u2 |-> << [id |-> "v21", name |-> "Wrap", options |-> << >>,
                price |-> 300, compare_at_price |-> NullPrice] >>]

\* the price elements of an item as the template renders them
RenderedPriceBlock ==
    [price |-> [currency |-> "rendered", units |-> 0, cents |-> 0],
     compare |-> [currency |-> "rendered", units |-> 0, cents |-> 0],
     compareDisplay |-> ""]
UpsellOptionsJson == [u1 |-> <<"Size">>, u2 |-> << >>]

\* the embedded JSON blocks, and the item whose block is the malformed one
\* when a per-item block is
DataBlocks == {"mainOptions", "mainVariants", "upsellVariants", "upsellOptions"}
BadItem == "u1"

\* dataset.mainProductSelectedVariantId
InitialVariantId == "m1"

\* dataset.hideConditions =
\* "Size:Large[Gift Wrap];Size:Small[extra brush, No Such Item]", as
\* parseHideConditions returns it
HideConditions ==
    << [optionName |-> "size", optionValue |-> "large",
        upsellProducts |-> <<"Gift Wrap">>],
       [optionName |-> "size", optionValue |-> "small",
        upsellProducts |-> <<"extra brush", "No Such Item">>] >>

\* String.prototype.toLowerCase / trim on the strings of the page data
ToLower(s) ==
    CASE s = "Small" -> "small"
      [] s = "Large" -> "large"
      [] s = "LARGE" -> "large"
      [] s = "Size" -> "size"
      [] s = "Color" -> "color"
      [] s = "Gift Wrap" -> "gift wrap"
      [] s = "Extra Brush" -> "extra brush"
      [] s = "Red" -> "red"
      [] s = "Blue" -> "blue"
      [] OTHER -> s
Trim(s) ==
    CASE s = " Extra Brush " -> "Extra Brush"
      [] OTHER -> s

----------------------------------------------------------------------------
(* VariantMatcher *)

\* an option mapping {name: value} is a function on a set of option names
EmptyMap == [n \in {} |-> ""]

TruthyWhenDefined(str) == str # NoValue

Truthy(str) == str # NoValue /\ str # ""

MapGet(m, n) == IF n \in DOMAIN m THEN m[n] ELSE NoValue

FindVariant(variants, id) ==
    LET hits == {k \in 1..Len(variants) : variants[k].id = id}
    IN  IF hits = {} THEN NoVariant
        ELSE variants[CHOOSE k \in hits : \A j \in hits : k <= j]

OptionAt(variant, k) ==
    IF k >= 1 /\ k <= Len(variant.options) THEN variant.options[k] ELSE NoValue

MapByListOrder(variantId, mainProductOptions, mainProductVariants) ==
    LET mainProductVariant == FindVariant(mainProductVariants, variantId)
    IN  IF mainProductVariant = NoVariant THEN EmptyMap
        ELSE [n \in {mainProductOptions[k].name : k \in 1..Len(mainProductOptions)}
                |-> OptionAt(mainProductVariant,
                             CHOOSE k \in 1..Len(mainProductOptions) :
                                mainProductOptions[k].name = n)]

mapMainProductVariants(variantId, mainProductOptions, mainProductVariants) ==
    LET mainProductVariant == FindVariant(mainProductVariants, variantId)
        names == {mainProductOptions[k].name : k \in 1..Len(mainProductOptions)}
        last(n) == CHOOSE k \in 1..Len(mainProductOptions) :
                      /\ mainProductOptions[k].name = n
                      /\ \A j \in 1..Len(mainProductOptions) :
                            mainProductOptions[j].name = n => j <= k
        val(n) == LET v == OptionAt(mainProductVariant,
                                    mainProductOptions[last(n)].position)
                  IN  IF Truthy(v) THEN v ELSE ""
    IN  IF mainProductVariant = NoVariant THEN EmptyMap
        ELSE [n \in {x \in names : x # ""} |-> val(n)]

ScoreCaseSensitive(upsellVariant, upsellProductOptions, mainProductVariants) ==
    LET comparable == {k \in 1..Len(upsellProductOptions) :
                          /\ Truthy(OptionAt(upsellVariant, k))
                          /\ Truthy(MapGet(mainProductVariants,
                                           upsellProductOptions[k]))}
        matching == {k \in comparable :
                        OptionAt(upsellVariant, k) =
                        mainProductVariants[upsellProductOptions[k]]}
    IN  IF comparable # {}
        THEN (Cardinality(matching) * 100) \div Cardinality(comparable) ELSE 0

\* the score uses integer arithmetic: matchScore * 100 \div totalOptions
calculateMatchScore(upsellVariant, upsellProductOptions, mainProductVariants) ==
    LET comparable == {k \in 1..Len(upsellProductOptions) :
                          /\ Truthy(OptionAt(upsellVariant, k))
                          /\ Truthy(MapGet(mainProductVariants,
                                           upsellProductOptions[k]))}
        matching == {k \in comparable :
                        ToLower(OptionAt(upsellVariant, k)) =
                        ToLower(mainProductVariants[upsellProductOptions[k]])}
        totalOptions == Cardinality(comparable)
        matchScore == Cardinality(matching)
    IN  IF totalOptions > 0 THEN (matchScore * 100) \div totalOptions ELSE 0

RECURSIVE ReduceLastBest(_, _, _, _, _)
ReduceLastBest(variants, options, mainMap, k, acc) ==
    IF k > Len(variants) THEN acc
    ELSE LET current == [variantId |-> variants[k].id,
                         matchScore |-> calculateMatchScore(variants[k],
                                                            options, mainMap)]
         IN  ReduceLastBest(variants, options, mainMap, k + 1,
                            IF current.matchScore >= acc.matchScore
                            THEN current ELSE acc)

RECURSIVE ReduceBest(_, _, _, _, _)
ReduceBest(variants, options, mainMap, k, acc) ==
    IF k > Len(variants) THEN acc
    ELSE LET current == [variantId |-> variants[k].id,
                         matchScore |-> calculateMatchScore(variants[k],
                                                            options, mainMap)]
         IN  ReduceBest(variants, options, mainMap, k + 1,
                        IF current.matchScore > acc.matchScore
                        THEN current ELSE acc)

findBestMatchingUpsellVariant(mainMap, upsellProductId, upsellVariants, upsellOptions) ==
    LET upsellProductVariants ==
            IF upsellProductId \in DOMAIN upsellVariants
            THEN upsellVariants[upsellProductId] ELSE << >>
        upsellProductOptions ==
            IF upsellProductId \in DOMAIN upsellOptions
            THEN upsellOptions[upsellProductId] ELSE << >>
    IN  IF Len(upsellProductVariants) = 0 THEN "null"
        ELSE ReduceBest(upsellProductVariants, upsellProductOptions, mainMap, 1,
                        [variantId |-> "null", matchScore |-> 0]).variantId

FindBestWithoutFallback(mainMap, upsellProductId, upsellVariants, upsellOptions) ==
    FindVariant(IF upsellProductId \in DOMAIN upsellVariants
                THEN upsellVariants[upsellProductId] ELSE << >>,
                findBestMatchingUpsellVariant(mainMap, upsellProductId,
                                              upsellVariants, upsellOptions))

findBestMatchVariant(mainMap, upsellProductId, upsellVariants, upsellOptions) ==
    LET bestMatchVariantId ==
            findBestMatchingUpsellVariant(mainMap, upsellProductId,
                                          upsellVariants, upsellOptions)
        currentUpsellVariants ==
            IF upsellProductId \in DOMAIN upsellVariants
            THEN upsellVariants[upsellProductId] ELSE << >>
        bestMatchVariant == FindVariant(currentUpsellVariants, bestMatchVariantId)
    IN  IF bestMatchVariant # NoVariant THEN bestMatchVariant
        ELSE IF Len(currentUpsellVariants) > 0 THEN currentUpsellVariants[1]
        ELSE NoVariant

\* HideConditionManager.normalizeOptions: keys and values lower-cased
normalizeOptions(options) ==
    LET keys == {ToLower(n) : n \in DOMAIN options}
        src(k) == CHOOSE n \in DOMAIN options : ToLower(n) = k
    IN  [k \in keys |-> ToLower(options[src(k)])]

----------------------------------------------------------------------------
(* The UpsellProducts component.  Its methods are operators on a record c  *)
(* of the instance's fields and the DOM it owns; an action applies the     *)
(* whole handler to the current state.                                     *)

Cur ==
    [checked |-> checked, hidden |-> hidden, display |-> display,
     orig |-> orig, modeAtHide |-> modeAtHide, best |-> best,
     priceBlock |-> priceBlock,
     inputs |-> inputs, selected |-> selected,
     btnSelected |-> btnSelected, isReady |-> isReady,
     cbListening |-> cbListening, docListening |-> docListening,
     dataLoaded |-> dataLoaded, subscribed |-> subscribed]

Apply(c) ==
    /\ checked' = c.checked
    /\ hidden' = c.hidden
    /\ display' = c.display
    /\ orig' = c.orig
    /\ modeAtHide' = c.modeAtHide
    /\ best' = c.best
    /\ priceBlock' = c.priceBlock
    /\ inputs' = c.inputs
    /\ selected' = c.selected
    /\ btnSelected' = c.btnSelected
    /\ isReady' = c.isReady
    /\ cbListening' = c.cbListening
    /\ docListening' = c.docListening
    /\ dataLoaded' = c.dataLoaded
    /\ subscribed' = c.subscribed

\* window.getComputedStyle(item).display
ComputedDisplay(c, i) == IF c.display[i] = "" THEN CssDisplay[i] ELSE c.display[i]

\* JSON.parse of a main-product block throws out of #initOptionsAndVariants:
\* the blocks after it are never read
ParseThrows == badBlock \in {"mainOptions", "mainVariants"}

\* JSON.parse of a block of upsell item i throws into the catch of the
\* forEach callback, which empties both fields of that item
ParseCaught(i) == badBlock \in {"upsellVariants", "upsellOptions"} /\ i = BadItem

\* the fields #initOptionsAndVariants fills; empty until it has run
mainProductOptions(c) ==
    IF c.dataLoaded /\ badBlock # "mainOptions" THEN MainProductOptionsJson
    ELSE << >>
mainProductVariants(c) ==
    IF c.dataLoaded /\ ~ParseThrows THEN MainProductVariantsJson ELSE << >>
upsellVariants(c) ==
    IF c.dataLoaded /\ ~ParseThrows
    THEN [i \in Items |-> IF ParseCaught(i) THEN << >> ELSE UpsellVariantsJson[i]]
    ELSE EmptyMap
upsellOptions(c) ==
    IF c.dataLoaded /\ ~ParseThrows
    THEN [i \in Items |-> IF ParseCaught(i) THEN << >> ELSE UpsellOptionsJson[i]]
    ELSE EmptyMap

StartsWith(str, prefix) ==
    Len(str) >= Len(prefix) /\ SubSeq(str, 1, Len(prefix)) = prefix

removeExistingUpsellInputs(c) ==
    [c EXCEPT !.inputs =
        SelectSeq(@, LAMBDA f : ~StartsWith(f.name, UPSELL_PRODUCT_PREFIX))]

RECURSIVE AppendUpsellInputs(_, _)
AppendUpsellInputs(c, k) ==
    IF k > Len(Checkboxes) THEN c
    ELSE LET i == Checkboxes[k]
             variant == c.best[i]
         IN  IF c.checked[i] /\ i \notin c.hidden /\ variant # NoVariant
             THEN AppendUpsellInputs(
                     [c EXCEPT !.inputs = Append(@,
                         [name |-> UPSELL_PRODUCT_PREFIX \o <<variant.id>>,
                          value |-> variant.name])], k + 1)
             ELSE AppendUpsellInputs(c, k + 1)

setHiddenUpsellInputs(c) == AppendUpsellInputs(c, 1)

resetHiddenUpsellInputs(c) == setHiddenUpsellInputs(removeExistingUpsellInputs(c))

updateButtonStyling(c) ==
    [c EXCEPT !.btnSelected = \E j \in Items \ c.hidden : c.checked[j]]

handleCheckboxChange(c, i) ==
    updateButtonStyling([c EXCEPT !.selected[i] = c.checked[i]])

\* dispatch of 'change' on checkbox i: the listener of #setupCheckboxListeners
DispatchChange(c, i) ==
    IF c.cbListening THEN resetHiddenUpsellInputs(handleCheckboxChange(c, i))
    ELSE c

\* dispatch of 'checkbox-unchecked' on checkbox i
DispatchUnchecked(c, i) ==
    IF c.cbListening THEN handleCheckboxChange(c, i) ELSE c

HideWithoutUncheck(c, i) ==
    LET currentDisplay == ComputedDisplay(c, i)
    IN  [c EXCEPT !.orig = IF currentDisplay # "none" THEN currentDisplay ELSE @,
                  !.modeAtHide[i] = IF currentDisplay # "none"
                                    THEN currentDisplay ELSE @,
                  !.hidden = @ \cup {i},
                  !.display[i] = "none"]

hideUpsellProduct(c, i) ==
    LET currentDisplay == ComputedDisplay(c, i)
        c1 == [c EXCEPT !.orig = IF currentDisplay # "none"
                                 THEN currentDisplay ELSE @,
                        !.modeAtHide[i] = IF currentDisplay # "none"
                                          THEN currentDisplay ELSE @,
                        !.hidden = @ \cup {i},
                        !.display[i] = "none"]
    IN  IF c1.checked[i]
        THEN DispatchChange([c1 EXCEPT !.checked[i] = FALSE], i)
        ELSE c1

showUpsellProduct(c, i) ==
    [c EXCEPT !.hidden = @ \ {i},
              !.display[i] = IF Truthy(c.orig) THEN c.orig ELSE "block"]

RECURSIVE HideFrom(_, _)
HideFrom(c, k) ==
    IF k > Len(Checkboxes) THEN c
    ELSE HideFrom(hideUpsellProduct(c, Checkboxes[k]), k + 1)

HideOnlyFirst(c) == hideUpsellProduct(c, Checkboxes[1])

hideAllUpsellProducts(c) == HideFrom(c, 1)

RECURSIVE ShowFrom(_, _)
ShowFrom(c, k) ==
    IF k > Len(Checkboxes) THEN c
    ELSE ShowFrom(showUpsellProduct(c, Checkboxes[k]), k + 1)

showAllUpsellProducts(c) == ShowFrom(c, 1)

RECURSIVE ClearFrom(_, _)
ClearFrom(c, k) ==
    IF k > Len(Checkboxes) THEN c
    ELSE LET i == Checkboxes[k]
         IN  IF c.checked[i]
             THEN ClearFrom(DispatchUnchecked([c EXCEPT !.checked[i] = FALSE], i),
                            k + 1)
             ELSE ClearFrom(c, k + 1)

ClearNothing(c) == c

clearCheckedUpsellProducts(c) == ClearFrom(c, 1)

updateBestMatchVariants(c, mainMap) ==
    [c EXCEPT !.best = [i \in Items |->
        findBestMatchVariant(mainMap, i, upsellVariants(c), upsellOptions(c))]]

\* PriceFormatter.formatMoney of an amount in cents, without a
\* window.Shopify.formatMoney: Intl.NumberFormat of amount / 100
formatMoney(amount) ==
    [currency |-> "USD", units |-> amount \div 100, cents |-> amount % 100]

\* upsell.variant?.price: undefined without a best-match variant
HasPrice(variant) == variant # NoVariant

SetPriceNotStrict(c, i, newPrice, newComparePrice) ==
    LET c1 == [c EXCEPT !.priceBlock[i].price = formatMoney(newPrice)]
    IN  IF newComparePrice # NullPrice /\ newComparePrice # 0
           /\ newComparePrice >= newPrice
        THEN [c1 EXCEPT !.priceBlock[i].compare = formatMoney(newComparePrice),
                        !.priceBlock[i].compareDisplay = "inline-block"]
        ELSE [c1 EXCEPT !.priceBlock[i].compareDisplay = "none"]

\* #setUpsellProductPrice for an item with a price; `newComparePrice &&` is
\* false for null and for 0
setUpsellProductPrice(c, i, newPrice, newComparePrice) ==
    LET c1 == [c EXCEPT !.priceBlock[i].price = formatMoney(newPrice)]
    IN  IF newComparePrice # NullPrice /\ newComparePrice # 0
           /\ newComparePrice > newPrice
        THEN [c1 EXCEPT !.priceBlock[i].compare = formatMoney(newComparePrice),
                        !.priceBlock[i].compareDisplay = "inline-block"]
        ELSE [c1 EXCEPT !.priceBlock[i].compareDisplay = "none"]

RECURSIVE SyncFrom(_, _)
SyncFrom(c, k) ==
    IF k > Len(Checkboxes) THEN c
    ELSE LET i == Checkboxes[k]
         IN  SyncFrom(IF i \notin c.hidden /\ HasPrice(c.best[i])
                      THEN setUpsellProductPrice(c, i, c.best[i].price,
                                                 c.best[i].compare_at_price)
                      ELSE c,
                      k + 1)

syncUpsellProductsBlock(c) == IF ~c.isReady THEN c ELSE SyncFrom(c, 1)

\* one pass of #hideUpsellProductByName over the checkboxes
RECURSIVE HideByNameFrom(_, _, _)
HideByNameFrom(c, upsellProductName, k) ==
    IF k > Len(Checkboxes) THEN c
    ELSE LET i == Checkboxes[k]
         IN  IF ToLower(Trim(ItemTitle[i])) = ToLower(upsellProductName)
             THEN HideByNameFrom(hideUpsellProduct(c, i), upsellProductName, k + 1)
             ELSE HideByNameFrom(c, upsellProductName, k + 1)

RECURSIVE HideByExactNameFrom(_, _, _)
HideByExactNameFrom(c, upsellProductName, k) ==
    IF k > Len(Checkboxes) THEN c
    ELSE LET i == Checkboxes[k]
         IN  IF ItemTitle[i] = upsellProductName
             THEN HideByExactNameFrom(hideUpsellProduct(c, i), upsellProductName, k + 1)
             ELSE HideByExactNameFrom(c, upsellProductName, k + 1)

HideByExactName(c, upsellProductName) ==
    HideByExactNameFrom(c, upsellProductName, 1)

hideUpsellProductByName(c, upsellProductName) ==
    HideByNameFrom(c, upsellProductName, 1)

RECURSIVE HideNamesFrom(_, _, _)
HideNamesFrom(c, names, k) ==
    IF k > Len(names) THEN c
    ELSE HideNamesFrom(hideUpsellProductByName(c, names[k]), names, k + 1)

RECURSIVE ConditionsFrom(_, _, _)
ConditionsFrom(c, normalizedOptions, k) ==
    IF k > Len(HideConditions) THEN c
    ELSE LET condition == HideConditions[k]
             optionValue == MapGet(normalizedOptions, condition.optionName)
         IN  IF Truthy(optionValue) /\ optionValue = condition.optionValue
             THEN ConditionsFrom(
                     HideNamesFrom(c, condition.upsellProducts, 1),
                     normalizedOptions, k + 1)
             ELSE ConditionsFrom(c, normalizedOptions, k + 1)

checkIndividualHideConditions(c, normalizedOptions) ==
    ConditionsFrom(showAllUpsellProducts(c), normalizedOptions, 1)

checkHideConditions(c, mappedMainVariant) ==
    IF ~c.isReady THEN hideAllUpsellProducts(c)
    ELSE checkIndividualHideConditions(c, normalizeOptions(mappedMainVariant))

\* UdoPaintsEditorManager.checkReadyToExport once the editor has answered,
\* followed by the rest of UpsellProducts.#checkReadyToExport.  The bridge
\* wrapper never rejects: an editor that throws answers {success:false}.
checkReadyToExport(c, answer) ==
    LET c1 == [c EXCEPT !.isReady = (answer = "success")]
    IN  IF c1.isReady
        THEN LET initialMainVariant ==
                     mapMainProductVariants(InitialVariantId,
                                            mainProductOptions(c1),
                                            mainProductVariants(c1))
             IN  syncUpsellProductsBlock(
                     checkHideConditions(
                         updateBestMatchVariants(showAllUpsellProducts(c1),
                                                 initialMainVariant),
                         initialMainVariant))
        ELSE hideAllUpsellProducts(c1)

listenForVariantChange(c, variantId) ==
    IF ~c.isReady THEN c
    ELSE IF variantId = "null" THEN c
    ELSE LET mappedMainVariant ==
                 mapMainProductVariants(variantId, mainProductOptions(c),
                                        mainProductVariants(c))
         IN  syncUpsellProductsBlock(
                 checkHideConditions(
                     updateBestMatchVariants(c, mappedMainVariant),
                     mappedMainVariant))

\* init() throws where #initOptionsAndVariants does: nothing catches a
\* JSON.parse of a main-product block
InitThrows == syncVariants /\ ParseThrows

\* init() after `await this.#checkUdoPaintsEditor()`: #setupCheckboxListeners,
\* #initOptionsAndVariants, #setupVariantChangeListener.  A listener added
\* with an aborted signal is not added.
InitRest(c, aborted) ==
    LET initialMainVariant ==
            mapMainProductVariants(InitialVariantId, mainProductOptions(c),
                                   mainProductVariants(c))
        c1 == [updateBestMatchVariants(c, initialMainVariant)
                  EXCEPT !.cbListening = ~aborted]
        c2 == [c1 EXCEPT !.dataLoaded = syncVariants]
    IN  IF InitThrows THEN c2 ELSE [c2 EXCEPT !.docListening = ~aborted]

\* where init() ends
InitEnd == IF InitThrows THEN "failed" ELSE "done"

----------------------------------------------------------------------------
(* Actions of the upsell specification *)

Answers == {"success", "notReady", "threw"}

\* the variables a method of the component may write (see Apply)
compVars == <<checked, hidden, display, orig, modeAtHide, best, priceBlock, inputs,
              selected, btnSelected, isReady, cbListening, docListening, dataLoaded,
              subscribed>>

\* no readiness check has been issued
NoCheck == [out |-> FALSE, answer |-> "none"]

UInitWith(block, cap) ==
    /\ badBlock = block
    /\ checkCap = cap
    /\ latest = NoCheck
    /\ status = "constructed"
    /\ pc = "idle"
    /\ windowReady \in BOOLEAN
    /\ mgrRejected = FALSE
    /\ isReady = FALSE
    /\ subscribed = FALSE
    /\ pending = 0
    /\ lastAnswer = "none"
    /\ syncVariants \in BOOLEAN
    /\ dataLoaded = FALSE
    /\ cbListening = FALSE
    /\ docListening = FALSE
    /\ checked = [i \in Items |-> FALSE]
    /\ hidden = {}
    /\ display = [i \in Items |-> ""]
    /\ orig = NoValue
    /\ modeAtHide = [i \in Items |-> ""]
    /\ best = [i \in Items |-> NoVariant]
    /\ priceBlock = [i \in Items |-> RenderedPriceBlock]
    /\ inputs = << [name |-> <<"id">>, value |-> InitialVariantId] >>
    /\ selected = [i \in Items |-> FALSE]
    /\ btnSelected = FALSE
    /\ mainSelected = InitialVariantId
    /\ heard = InitialVariantId
    /\ lastOp = "none"
    /\ lastHandler = "none"
    /\ shownByCall = FALSE

UInitOf(block) == UInitWith(block, MaxPending)

\* the page data is well-formed JSON
UInit == UInitOf("none")

Aborted == status = "disconnected"

\* a handler of the instance runs: recorded once the instance is disconnected
Ran(handler) == lastHandler' = IF Aborted THEN handler ELSE lastHandler

\* connectedCallback: a fresh AbortController, then init() up to its first
\* suspension, the promise of waitForManager
Connect ==
    /\ status = "constructed"
    /\ status' = "connected"
    /\ pc' = "wait"
    /\ lastOp' = "other"
    /\ UNCHANGED <<compVars, windowReady, mgrRejected, pending, latest, lastAnswer,
                   syncVariants, badBlock, checkCap, mainSelected, heard, lastHandler, shownByCall>>
    /\ UNCHANGED notU

\* disconnectedCallback: abort() removes every listener added with the signal
Disconnect ==
    /\ status = "connected"
    /\ status' = "disconnected"
    /\ cbListening' = FALSE
    /\ docListening' = FALSE
    /\ lastOp' = "other"
    /\ UNCHANGED <<pc, windowReady, mgrRejected, isReady, subscribed, pending, latest,
                   lastAnswer, syncVariants, badBlock, checkCap, dataLoaded, checked, hidden,
                   display, orig, modeAtHide, best, priceBlock, inputs,
                   selected, btnSelected, mainSelected, heard, lastHandler,
                   shownByCall>>
    /\ UNCHANGED notU

\* the global bridge manager finds window.UdoPaintsEditor and turns ready
EditorLoads ==
    /\ ~windowReady
    /\ windowReady' = TRUE
    /\ lastOp' = "other"
    /\ UNCHANGED <<compVars, status, pc, mgrRejected, pending, latest, lastAnswer,
                   syncVariants, badBlock, checkCap, mainSelected, heard, lastHandler, shownByCall>>
    /\ UNCHANGED notU

\* waitForManager resolves: a checkManager() finds the global manager ready;
\* UdoPaintsEditorManager.checkReadyToExport then awaits the editor's answer
WaitResolve ==
    /\ pc = "wait"
    /\ windowReady
    /\ pc' = "check"
    /\ lastOp' = "other"
    /\ UNCHANGED <<compVars, status, windowReady, mgrRejected, pending, latest,
                   lastAnswer, syncVariants, badBlock, checkCap, mainSelected, heard, lastHandler,
                   shownByCall>>
    /\ UNCHANGED notU

\* waitForManager rejects: the last of its checks finds the manager not
\* ready; the catch of #checkUdoPaintsEditor runs, then the rest of init
WaitReject ==
    /\ pc = "wait"
    /\ ~windowReady
    /\ pc' = InitEnd
    /\ mgrRejected' = TRUE
    /\ shownByCall' = FALSE
    /\ Apply(InitRest(hideAllUpsellProducts(Cur), Aborted))
    /\ lastOp' = "other"
    /\ UNCHANGED <<status, windowReady, pending, latest, lastAnswer, syncVariants, badBlock, checkCap,
                   mainSelected, heard, lastHandler>>
    /\ UNCHANGED notU

\* the editor answers the readiness check of init; #setupUdoPaintsEditorListener
\* subscribes to state changes, then the rest of init runs
InitCheckDone ==
    /\ pc = "check"
    /\ \E answer \in Answers :
          /\ lastAnswer' = answer
          /\ latest' = [out |-> FALSE, answer |-> answer]
          /\ Apply(InitRest([checkReadyToExport(Cur, answer)
                                EXCEPT !.subscribed = TRUE], Aborted))
    /\ pc' = InitEnd
    /\ shownByCall' = FALSE
    /\ lastOp' = "initCheck"
    /\ UNCHANGED <<status, windowReady, mgrRejected, pending, syncVariants, badBlock, checkCap,
                   mainSelected, heard, lastHandler>>
    /\ UNCHANGED notU

\* the editor notifies a state; the subscribed callback issues a readiness
\* check for the states tagged `editor:`
StateChange ==
    /\ subscribed
    /\ pending < checkCap
    /\ \E state \in {<<"editor:", "ready">>, <<"upload-state:", "loading">>} :
          IF StartsWith(state, <<"editor:">>)
          THEN /\ pending' = pending + 1
               /\ latest' = [out |-> TRUE, answer |-> "none"]
               /\ Ran("stateChange")
          ELSE UNCHANGED <<pending, latest, lastHandler>>
    /\ lastOp' = "other"
    /\ UNCHANGED <<compVars, status, pc, windowReady, mgrRejected, lastAnswer,
                   syncVariants, badBlock, checkCap, mainSelected, heard, shownByCall>>
    /\ UNCHANGED notU

\* the editor answers one of the readiness checks in flight, the most
\* recently issued one or an earlier one: each call of isReadyToExport has a
\* promise of its own, settled when the editor settles it
CheckDone ==
    /\ pending > 0
    /\ pending' = pending - 1
    /\ \E answer \in Answers, ofLatest \in BOOLEAN :
          /\ IF ofLatest THEN latest.out
                         ELSE pending > (IF latest.out THEN 1 ELSE 0)
          /\ lastAnswer' = answer
          /\ latest' = IF ofLatest THEN [out |-> FALSE, answer |-> answer]
                                   ELSE latest
          /\ Apply(checkReadyToExport(Cur, answer))
    /\ shownByCall' = FALSE
    /\ lastOp' = "checkDone"
    /\ UNCHANGED <<status, pc, windowReady, mgrRejected, syncVariants, badBlock, checkCap,
                   mainSelected, heard, lastHandler>>
    /\ UNCHANGED notU

\* the shopper toggles the checkbox of an item that is displayed
CheckboxClick ==
    /\ status # "constructed"
    /\ \E i \in Items :
          /\ ComputedDisplay(Cur, i) # "none"
          /\ Apply(DispatchChange([Cur EXCEPT !.checked[i] = ~checked[i]], i))
    /\ lastOp' = "other"
    /\ IF cbListening THEN Ran("change") ELSE UNCHANGED lastHandler
    /\ UNCHANGED <<status, pc, windowReady, mgrRejected, pending, latest, lastAnswer,
                   syncVariants, badBlock, checkCap, mainSelected, heard, shownByCall>>
    /\ UNCHANGED notU

\* the variant picker dispatches variant-selected on the document
VariantSelected ==
    /\ status # "constructed"
    /\ \E v \in MainVariantIds :
          /\ mainSelected' = v
          /\ IF docListening
             THEN Apply(resetHiddenUpsellInputs(listenForVariantChange(Cur, v)))
             ELSE Apply(Cur)
    /\ lastOp' = "variantSelected"
    /\ IF docListening THEN Ran("variantSelected") ELSE UNCHANGED lastHandler
    /\ heard' = IF docListening THEN mainSelected' ELSE heard
    /\ UNCHANGED <<status, pc, windowReady, mgrRejected, pending, latest, lastAnswer,
                   syncVariants, badBlock, checkCap, shownByCall>>
    /\ UNCHANGED notU

\* a cart-update event reaches the document
CartUpdate ==
    /\ status # "constructed"
    /\ IF docListening
       THEN Apply(removeExistingUpsellInputs(clearCheckedUpsellProducts(Cur)))
       ELSE Apply(Cur)
    /\ lastOp' = "cartUpdate"
    /\ IF docListening THEN Ran("cartUpdate") ELSE UNCHANGED lastHandler
    /\ UNCHANGED <<status, pc, windowReady, mgrRejected, pending, latest, lastAnswer,
                   syncVariants, badBlock, checkCap, mainSelected, heard, shownByCall>>
    /\ UNCHANGED notU

\* a caller uses the public hideUpsellProduct(upsellId, item) on an item
HideCall ==
    /\ status # "constructed"
    /\ \E i \in Items : Apply(hideUpsellProduct(Cur, i))
    /\ lastOp' = "hideCall"
    /\ UNCHANGED <<status, pc, windowReady, mgrRejected, pending, latest, lastAnswer,
                   syncVariants, badBlock, checkCap, mainSelected, heard, lastHandler, shownByCall>>
    /\ UNCHANGED notU

\* a caller uses the public showUpsellProduct(upsellId, item) on an item
ShowCall ==
    /\ status # "constructed"
    /\ \E i \in Items : Apply(showUpsellProduct(Cur, i))
    /\ shownByCall' = TRUE
    /\ lastOp' = "other"
    /\ UNCHANGED <<status, pc, windowReady, mgrRejected, pending, latest, lastAnswer,
                   syncVariants, badBlock, checkCap, mainSelected, heard, lastHandler>>
    /\ UNCHANGED notU

\* the shopper submits the product form: the form data is read as it stands
Submit ==
    /\ pc \in {"done", "failed"}
    /\ lastOp' = "submit"
    /\ UNCHANGED <<compVars, status, pc, windowReady, mgrRejected, pending, latest,
                   lastAnswer, syncVariants, badBlock, checkCap, mainSelected, heard, lastHandler,
                   shownByCall>>
    /\ UNCHANGED notU

UNext ==
    \/ Connect
    \/ Disconnect
    \/ EditorLoads
    \/ WaitResolve
    \/ WaitReject
    \/ InitCheckDone
    \/ StateChange
    \/ CheckDone
    \/ CheckboxClick
    \/ VariantSelected
    \/ CartUpdate
    \/ HideCall
    \/ ShowCall
    \/ Submit

----------------------------------------------------------------------------
(* ProductFormComponent.#detectUpsellProducts, a pure function of the form *)
(* data.  An object is the sequence of its entries in insertion order;     *)
(* formJsonData is its string-valued entries and its `properties` object.  *)

Lookup(entries, key) ==
    LET hits == {k \in 1..Len(entries) : entries[k].key = key}
    IN  IF hits = {} THEN NoValue ELSE entries[CHOOSE k \in hits : TRUE].value

\* {...a, ...b}: the entries of a, overwritten in place by b, then b's new ones
Spread(a, b) ==
    LET over(e) == IF Lookup(b, e.key) # NoValue
                   THEN [key |-> e.key, value |-> Lookup(b, e.key)] ELSE e
        kept == [k \in 1..Len(a) |-> over(a[k])]
    IN  kept \o SelectSeq(b, LAMBDA e : Lookup(a, e.key) = NoValue)

\* String.prototype.replace(prefix, ''): the first occurrence is removed
RECURSIVE ReplaceFirst(_, _)
ReplaceFirst(str, prefix) ==
    IF Len(str) < Len(prefix) THEN str
    ELSE IF StartsWith(str, prefix)
    THEN SubSeq(str, Len(prefix) + 1, Len(str))
    ELSE <<Head(str)>> \o ReplaceFirst(Tail(str), prefix)

IsUpsellKey(e) == StartsWith(e.key, UPSELL_PRODUCT_PREFIX)

KeepAllEntries(entries) == entries

\* the entries that stay at the top level of the primary line item
StripUpsellEntries(entries) == SelectSeq(entries, LAMBDA e : ~IsUpsellKey(e))

detectUpsellProducts(formJsonData) ==
    LET upsellProductsFormData == SelectSeq(formJsonData.fields, IsUpsellKey)
        productTitle == Lookup(formJsonData.fields, <<"product-title">>)
        unchanged == [cleanFormJsonData |-> formJsonData,
                      upsellProducts |-> << >>, onError |-> FALSE]
        upsellProducts ==
            [k \in 1..Len(upsellProductsFormData) |->
                [id |-> ReplaceFirst(upsellProductsFormData[k].key,
                                     UPSELL_PRODUCT_PREFIX),
                 title |-> upsellProductsFormData[k].value,
                 quantity |-> 1,
                 properties |-> << [key |-> <<"Product">>,
                                    value |-> productTitle] >>]]
    IN  IF Len(upsellProductsFormData) = 0 THEN unchanged
        ELSE IF ~Truthy(productTitle) THEN [unchanged EXCEPT !.onError = TRUE]
        ELSE [cleanFormJsonData |->
                 [fields |-> StripUpsellEntries(formJsonData.fields),
                  properties |-> Spread(formJsonData.properties,
                                        upsellProductsFormData)],
              upsellProducts |-> upsellProducts,
              onError |-> FALSE]

\* the form data the model hands in: `id` always, the others optional
OptionalEntries ==
    << [key |-> <<"quantity">>, value |-> "2"],
       [key |-> UPSELL_PRODUCT_PREFIX \o <<"v11">>, value |-> "Brush S"],
       [key |-> <<"note", "_upsell_variant_">>, value |-> "n"],
       [key |-> UPSELL_PRODUCT_PREFIX \o <<"v21">>, value |-> "Wrap"],
       [key |-> <<"sections">>, value |-> "cart"] >>

FormDataOf(chosen, title) ==
    << [key |-> <<"id">>, value |-> "m1"] >>
    \o (IF title = NoValue THEN << >>
        ELSE << [key |-> <<"product-title">>, value |-> title] >>)
    \o SelectSeq(OptionalEntries,
                 LAMBDA e : \E k \in chosen : OptionalEntries[k] = e)

LineItemProperties ==
    << [key |-> <<"_supplier_image">>, value |-> "cdn/s.png"],
       [key |-> <<"_feature">>, value |-> "gallery-kit"] >>

NoResult == [cleanFormJsonData |-> [fields |-> << >>, properties |-> << >>],
             upsellProducts |-> << >>, onError |-> FALSE]

DInit ==
    /\ dpc = "input"
    /\ \E chosen \in SUBSET (1..Len(OptionalEntries)),
          title \in {NoValue, "", "Canvas"} :
          dIn = [fields |-> FormDataOf(chosen, title),
                 properties |-> LineItemProperties]
    /\ dOut = NoResult

DPark ==
    /\ dpc = "input"
    /\ dIn = [fields |-> << >>, properties |-> << >>]
    /\ dOut = NoResult

Detect ==
    /\ dpc = "input"
    /\ dpc' = "done"
    /\ dOut' = detectUpsellProducts(dIn)
    /\ UNCHANGED dIn
    /\ UNCHANGED notD

DNext == Detect

----------------------------------------------------------------------------
(* The global bridge manager (window.UdoPaintsEditorManager) and its       *)
(* promise wrappers around the methods of window.UdoPaintsEditor.          *)

Wrappers == {"isReadyToExport", "onAddToCart", "afterAddToCart", "uploadImage"}

\* a wrapper that has not been called.  Of its onReady callback: how often
\* it was invoked, its place in readyCallbacks while it is queued (0 when it
\* is not), and while it runs how it was invoked: "atOnce" by onReady, or by
\* the forEach of checkAvailability, "inTurn" at that place or "outOfTurn"
Idle ==
    [st |-> "idle", res |-> [success |-> FALSE, error |-> "", from |-> "none"],
     runs |-> 0, ticket |-> 0, via |-> "none"]

\* what the editor's own method may do once it is called
EditorOutcomes ==
    { [kind |-> "returns", success |-> TRUE, message |-> ""],
      [kind |-> "returns", success |-> FALSE, message |-> "not ready"],
      [kind |-> "throws", success |-> FALSE, message |-> "boom"],
      [kind |-> "throws", success |-> FALSE, message |-> ""] }

\* try { resolve(await editor.m()) } catch (error) { resolve({success:false,
\* error: error.message || 'Failed to call m'}) }
Settle(m, outcome) ==
    IF outcome.kind = "returns"
    THEN [st |-> "resolved",
          res |-> [success |-> outcome.success, error |-> outcome.message,
                   from |-> "editor"]]
    ELSE [st |-> "resolved",
          res |-> [success |-> FALSE,
                   error |-> IF outcome.message # "" THEN outcome.message
                             ELSE "Failed to call " \o m,
                   from |-> "wrapper"]]

InvokeEachReversed(calls, callbacks) ==
    [m \in Wrappers |->
        IF \E k \in 1..Len(callbacks) : callbacks[k] = m
        THEN [calls[m] EXCEPT
                 !.st = "running",
                 !.runs = @ + 1,
                 !.ticket = 0,
                 !.via = IF calls[m].ticket =
                            Len(callbacks) + 1
                            - (CHOOSE k \in 1..Len(callbacks) : callbacks[k] = m)
                         THEN "inTurn" ELSE "outOfTurn"]
        ELSE calls[m]]

\* this.readyCallbacks.forEach(callback => callback()): each queued callback
\* is invoked, in array order
InvokeEach(calls, callbacks) ==
    [m \in Wrappers |->
        IF \E k \in 1..Len(callbacks) : callbacks[k] = m
        THEN [calls[m] EXCEPT
                 !.st = "running",
                 !.runs = @ + 1,
                 !.ticket = 0,
                 !.via = IF calls[m].ticket =
                            (CHOOSE k \in 1..Len(callbacks) : callbacks[k] = m)
                         THEN "inTurn" ELSE "outOfTurn"]
        ELSE calls[m]]

\* the constructor runs checkAvailability() once
BInit ==
    /\ editorPresent \in BOOLEAN
    /\ bReady = editorPresent
    /\ timerArmed = ~editorPresent
    /\ readyCallbacks = << >>
    /\ polls = 1
    /\ call = [m \in Wrappers |-> Idle]

BPark ==
    /\ editorPresent = FALSE
    /\ bReady = FALSE
    /\ timerArmed = FALSE
    /\ readyCallbacks = << >>
    /\ polls = 0
    /\ call = [m \in Wrappers |-> Idle]

\* the host page defines window.UdoPaintsEditor
EditorAppears ==
    /\ ~editorPresent
    /\ editorPresent' = TRUE
    /\ UNCHANGED <<bReady, readyCallbacks, timerArmed, polls, call>>
    /\ UNCHANGED notB

\* the timer fires: checkAvailability()
checkAvailability ==
    /\ timerArmed
    /\ polls' = IF polls < PollCap THEN polls + 1 ELSE polls
    /\ IF editorPresent
       THEN /\ bReady' = TRUE
            /\ call' = InvokeEach(call, readyCallbacks)
            /\ readyCallbacks' = << >>
            /\ timerArmed' = FALSE
       ELSE /\ timerArmed' = TRUE
            /\ UNCHANGED <<bReady, readyCallbacks, call>>
    /\ UNCHANGED editorPresent
    /\ UNCHANGED notB

\* a caller invokes a wrapper: new Promise, then onReady(callback): the
\* callback runs at once when the manager is ready and is queued otherwise
CallWrapper ==
    /\ \E m \in Wrappers :
          /\ call[m].st \in {"idle", "resolved"}
          /\ IF bReady
             THEN /\ call' = [call EXCEPT ![m] = [Idle EXCEPT !.st = "running",
                                                              !.runs = 1,
                                                              !.via = "atOnce"]]
                  /\ UNCHANGED readyCallbacks
             ELSE /\ call' = [call EXCEPT
                                ![m] = [Idle EXCEPT
                                           !.st = "queued",
                                           !.ticket = Len(readyCallbacks) + 1]]
                  /\ readyCallbacks' = Append(readyCallbacks, m)
    /\ UNCHANGED <<editorPresent, bReady, timerArmed, polls>>
    /\ UNCHANGED notB

\* the editor's method returns or throws; the callback settles the promise
EditorAnswers ==
    /\ \E m \in Wrappers, outcome \in EditorOutcomes :
          /\ call[m].st = "running"
          /\ call' = [call EXCEPT ![m] = [Idle EXCEPT
                                             !.st = Settle(m, outcome).st,
                                             !.res = Settle(m, outcome).res,
                                             !.runs = call[m].runs]]
    /\ UNCHANGED <<editorPresent, bReady, readyCallbacks, timerArmed, polls>>
    /\ UNCHANGED notB

BNext ==
    \/ EditorAppears
    \/ checkAvailability
    \/ CallWrapper
    \/ EditorAnswers

----------------------------------------------------------------------------
(* The product form: ProductFormComponent.handleSubmit, an async function  *)
(* that may be entered again while an earlier call is suspended, and the   *)
(* AddToCartComponent it drives.                                           *)

Subs == 1..MaxSubmits

InFlight == {"appcheck", "upload", "hook", "fetch", "cartdata", "after"}

Features == {"gallery-kit", "canvas"}

\* what window.UdoPaintsEditorManager.isReadyToExport() can give
\* #checkAppBlockState; "none" is a missing feature, as in the wrapper's
\* {success:false, error}
AppStates ==
    [success : BOOLEAN, feature : Features \cup {"none"}, throws : {FALSE}]
    \cup {[success |-> FALSE, feature |-> "none", throws |-> TRUE]}

\* an image of the pre-add-to-cart hook's result: not delivered, an object
\* with neither URL, one with `url` only, one with `cdnUrl` and `url`
ImageKinds == {"absent", "bare", "urlOnly", "full"}

HasCdnUrl(image) == image = "full"
HasUrl(image) == image \in {"urlOnly", "full"}

Images(original, preview, supplier) ==
    [originalImage |-> original, previewImage |-> preview,
     supplierImage |-> supplier]

\* what window.UdoPaintsEditorManager.onAddToCart can resolve to; the
\* wrapper's {success:false, error} has no image
HookResults ==
    [originalImage : ImageKinds, previewImage : ImageKinds,
     supplierImage : ImageKinds]

\* #getLineItemProperties after the hook has settled: whether it throws, and
\* the properties whose value is defined (JSON.stringify drops the others)
getLineItemProperties(feature, images) ==
    IF feature = "gallery-kit"
    THEN IF images.supplierImage = "absent"
         THEN [threw |-> TRUE, properties |-> {}]
         ELSE [threw |-> FALSE,
               properties |->
                   {"_feature"} \cup
                   (IF HasCdnUrl(images.supplierImage) \/ HasUrl(images.supplierImage)
                    THEN {"_supplier_image"} ELSE {})]
    ELSE IF \/ images.previewImage = "absent"
            \/ images.originalImage = "absent"
            \/ images.supplierImage = "absent"
         THEN [threw |-> TRUE, properties |-> {}]
         ELSE [threw |-> FALSE,
               properties |->
                   {"_feature"} \cup
                   (IF HasCdnUrl(images.previewImage) THEN {"preview_image"} ELSE {}) \cup
                   (IF HasCdnUrl(images.supplierImage) THEN {"_supplier_image"} ELSE {}) \cup
                   (IF HasCdnUrl(images.originalImage) THEN {"_original_image"} ELSE {}) \cup
                   (IF HasUrl(images.previewImage) THEN {"_tmp_preview_image"} ELSE {}) \cup
                   (IF HasUrl(images.supplierImage) THEN {"_tmp_supplier_image"} ELSE {}) \cup
                   (IF HasUrl(images.originalImage) THEN {"_tmp_original_image"} ELSE {})]

ImagesSuffice(feature, images) == ~getLineItemProperties(feature, images).threw

\* the hook results handleSubmit tells apart: every image, the supplier
\* image only, no image
HookCases ==
    {Images("full", "full", "full"), Images("absent", "absent", "full"),
     Images("absent", "absent", "absent")}

btnDisabled == disabledAttr # "none"

\* a call of handleSubmit that has not run yet
NewSub ==
    [pc |-> "idle",        \* where the call is
     feature |-> "none",   \* the feature it goes on with
     ready |-> "none",     \* what isReadyToExport answered (see AnswerKind)
     upload |-> FALSE,     \* uploadImage was called
     hooked |-> FALSE,     \* onAddToCart has settled
     requested |-> FALSE,  \* the cart-add request was sent
     shown |-> FALSE,      \* handleSuccessfulAddToCart was called
     response |-> "none",  \* what the cart API answered
     after |-> "none",     \* afterAddToCart: "called" | "ok" | "threw"
     event |-> "none"]     \* the CartAddEvent dispatched: "added" | "error"

\* the answers of isReadyToExport, by what the form makes of them
AnswerKind(app) ==
    IF app.throws THEN "threw"
    ELSE IF app.success
         THEN IF app.feature # "none" THEN "ok" ELSE "noFeature"
    ELSE IF app.feature = "gallery-kit" THEN "notReadyGalleryKit"
    ELSE "notReady"

CheckWithoutUpload(app) ==
    IF app.throws THEN [success |-> FALSE, feature |-> "none", upload |-> FALSE]
    ELSE [success |-> app.success, feature |-> app.feature, upload |-> FALSE]

\* #checkAppBlockState on the answer of isReadyToExport: what it returns and
\* whether it calls uploadImage first
checkAppBlockState(app) ==
    IF app.throws THEN [success |-> FALSE, feature |-> "none", upload |-> FALSE]
    ELSE [success |-> app.success, feature |-> app.feature,
          upload |-> ~app.success /\ app.feature # "gallery-kit"]

FInit ==
    /\ subs = [s \in Subs |-> NewSub]
    /\ disabledAttr \in {"none", "true"}
    /\ spinner = FALSE
    /\ added = FALSE
    /\ errorShown = FALSE
    /\ liveRegion = ""
    /\ refLive = FALSE
    /\ strayTimers = 0
    /\ okTimers = 0
    /\ disabledBySubmit = FALSE

FPark ==
    /\ FInit
    /\ disabledAttr = "none"

\* AddToCartComponent.disable / enable: the property reflects in the attribute
disable == disabledAttr' = ""
enable == disabledAttr' = "none"

\* the calls have no identity of their own: they are kept in the order of
\* how far they are, the calls in flight first
PcRank(pcv) ==
    CASE pcv = "after" -> 8 [] pcv = "cartdata" -> 7 [] pcv = "fetch" -> 6
      [] pcv = "hook" -> 5 [] pcv = "upload" -> 4 [] pcv = "appcheck" -> 3
      [] pcv = "idle" -> 0 [] OTHER -> 1

SubRank(sub) == 2 * PcRank(sub.pc) + (IF sub.feature = "canvas" THEN 1 ELSE 0)

InOrder(calls) == SortSeq(calls, LAMBDA a, b : SubRank(a) > SubRank(b))

\* call s goes on to `sub`; of the calls that have ended, only the one that
\* ended last keeps its record
SetSubTo(s, sub) ==
    subs' = InOrder([t \in Subs |-> IF t = s THEN sub
                                    ELSE IF subs[t].pc \in InFlight THEN subs[t]
                                    ELSE NewSub])

SetSub(s, pcv, feature) ==
    SetSubTo(s, [subs[s] EXCEPT !.pc = pcv, !.feature = feature])

\* a submit event: handleSubmit up to its first suspension.  The browser
\* sends no submit event from a disabled button.
SubmitForm ==
    /\ \E s \in Subs :
          /\ subs[s].pc \notin InFlight
          /\ \A t \in Subs : t < s => subs[t].pc \in InFlight
          /\ IF disabledAttr = "true"
             THEN SetSubTo(s, [NewSub EXCEPT !.pc = "returned"])
             ELSE /\ disabledAttr = "none"
                  /\ SetSubTo(s, [NewSub EXCEPT !.pc = "appcheck"])
    /\ refLive' = FALSE
    /\ UNCHANGED <<disabledAttr, spinner, added, errorShown, liveRegion,
                   strayTimers, okTimers, disabledBySubmit>>
    /\ UNCHANGED notF

\* isReadyToExport has answered: the rest of #checkAppBlockState, then
\* handleSubmit up to `await this.#getLineItemProperties(...)`
AppCheckDone ==
    /\ \E s \in Subs, app \in AppStates, idsPresent \in BOOLEAN :
          /\ subs[s].pc = "appcheck"
          /\ LET state == checkAppBlockState(app)
                 sub == [subs[s] EXCEPT !.ready = AnswerKind(app),
                                        !.upload = state.upload]
             IN  IF state.upload
                 THEN /\ SetSubTo(s, [sub EXCEPT !.pc = "upload"])
                      /\ UNCHANGED <<disabledAttr, spinner, disabledBySubmit>>
                 ELSE IF ~state.success \/ state.feature = "none"
                 THEN /\ SetSubTo(s, [sub EXCEPT !.pc = "returned"])
                      /\ UNCHANGED <<disabledAttr, spinner, disabledBySubmit>>
                 ELSE \* handleStartedAddingToCart, then the form data is read
                      /\ disable
                      /\ spinner' = TRUE
                      /\ disabledBySubmit' = TRUE
                      /\ SetSubTo(s, [sub EXCEPT
                                         !.pc = IF idsPresent THEN "hook"
                                                ELSE "threw",
                                         !.feature = state.feature])
    /\ UNCHANGED <<added, errorShown, liveRegion, refLive, strayTimers,
                   okTimers>>
    /\ UNCHANGED notF

\* uploadImage has settled: #checkAppBlockState returns, handleSubmit returns
UploadDone ==
    /\ \E s \in Subs :
          /\ subs[s].pc = "upload"
          /\ SetSub(s, "returned", "none")
    /\ UNCHANGED <<disabledAttr, spinner, added, errorShown, liveRegion,
                   refLive, strayTimers, okTimers, disabledBySubmit>>
    /\ UNCHANGED notF

\* onAddToCart has settled: the rest of #getLineItemProperties, then
\* #detectUpsellProducts, handleSuccessfulAddToCart and the fetch of #addToCart
HookDone ==
    /\ \E s \in Subs, images \in HookCases :
          /\ subs[s].pc = "hook"
          /\ IF ImagesSuffice(subs[s].feature, images)
             THEN /\ SetSubTo(s, [subs[s] EXCEPT !.pc = "fetch",
                                                 !.hooked = TRUE,
                                                 !.shown = TRUE,
                                                 !.requested = TRUE])
                  /\ added' = TRUE
                  /\ enable
                  /\ spinner' = FALSE
                  /\ disabledBySubmit' = FALSE
             ELSE /\ SetSubTo(s, [subs[s] EXCEPT !.pc = "threw",
                                                 !.hooked = TRUE])
                  /\ UNCHANGED <<added, disabledAttr, spinner,
                                 disabledBySubmit>>
    /\ UNCHANGED <<errorShown, liveRegion, refLive, strayTimers, okTimers>>
    /\ UNCHANGED notF

\* the cart API has answered or the request has failed: the rest of #addToCart
FetchDone ==
    /\ \E s \in Subs, response \in {"items", "errorStatus", "networkError"} :
          /\ subs[s].pc = "fetch"
          /\ CASE response = "networkError" ->
                    /\ SetSubTo(s, [subs[s] EXCEPT !.pc = "done",
                                                   !.response = response])
                    /\ UNCHANGED <<errorShown, liveRegion, refLive,
                                   strayTimers, okTimers>>
               [] response = "errorStatus" ->
                    \* #handleCartError
                    /\ (refLive => strayTimers < MaxTimers)
                    /\ SetSubTo(s, [subs[s] EXCEPT !.pc = "done",
                                                   !.response = response,
                                                   !.event = "error"])
                    /\ errorShown' = TRUE
                    /\ liveRegion' = "error"
                    /\ strayTimers' = IF refLive THEN strayTimers + 1
                                      ELSE strayTimers
                    /\ refLive' = TRUE
                    /\ UNCHANGED okTimers
               [] response = "items" ->
                    \* #handleCartSuccess up to `await this.#getCartData()`
                    /\ okTimers < MaxTimers
                    /\ SetSubTo(s, [subs[s] EXCEPT !.pc = "cartdata",
                                                   !.response = response])
                    /\ errorShown' = FALSE
                    /\ liveRegion' = "added"
                    /\ okTimers' = okTimers + 1
                    /\ UNCHANGED <<refLive, strayTimers>>
    /\ UNCHANGED <<disabledAttr, spinner, added, disabledBySubmit>>
    /\ UNCHANGED notF

\* #getCartData has settled (it never throws): afterAddToCart is called
CartDataDone ==
    /\ \E s \in Subs :
          /\ subs[s].pc = "cartdata"
          /\ SetSubTo(s, [subs[s] EXCEPT !.pc = "after", !.after = "called"])
    /\ UNCHANGED <<disabledAttr, spinner, added, errorShown, liveRegion,
                   refLive, strayTimers, okTimers, disabledBySubmit>>
    /\ UNCHANGED notF

AfterDoneUncaught ==
    /\ \E s \in Subs, outcome \in {"ok", "threw"} :
          /\ subs[s].pc = "after"
          /\ SetSubTo(s, [subs[s] EXCEPT
                             !.pc = "done",
                             !.after = outcome,
                             !.event = IF outcome = "ok" THEN "added" ELSE @])
    /\ UNCHANGED <<disabledAttr, spinner, added, errorShown, liveRegion,
                   refLive, strayTimers, okTimers, disabledBySubmit>>
    /\ UNCHANGED notF

\* afterAddToCart has settled or thrown (#successAddToCart catches it): the
\* CartAddEvent is dispatched
AfterDone ==
    /\ \E s \in Subs, outcome \in {"ok", "threw"} :
          /\ subs[s].pc = "after"
          /\ SetSubTo(s, [subs[s] EXCEPT !.pc = "done",
                                         !.after = outcome,
                                         !.event = "added"])
    /\ UNCHANGED <<disabledAttr, spinner, added, errorShown, liveRegion,
                   refLive, strayTimers, okTimers, disabledBySubmit>>
    /\ UNCHANGED notF

\* a 10000 ms timer of #handleCartError fires
ErrorTimerFires ==
    /\ \/ /\ refLive
          /\ refLive' = FALSE
          /\ UNCHANGED strayTimers
       \/ /\ strayTimers > 0
          /\ strayTimers' = strayTimers - 1
          /\ UNCHANGED refLive
    /\ errorShown' = FALSE
    /\ liveRegion' = ""
    /\ UNCHANGED <<subs, disabledAttr, spinner, added, okTimers,
                   disabledBySubmit>>
    /\ UNCHANGED notF

\* a 5000 ms timer of #handleCartSuccess fires
OkTimerFires ==
    /\ okTimers > 0
    /\ okTimers' = okTimers - 1
    /\ liveRegion' = ""
    /\ UNCHANGED <<subs, disabledAttr, spinner, added, errorShown, refLive,
                   strayTimers, disabledBySubmit>>
    /\ UNCHANGED notF

\* the timers of animateAddToCart run out
AnimationEnds ==
    /\ added
    /\ added' = FALSE
    /\ UNCHANGED <<subs, disabledAttr, spinner, errorShown, liveRegion,
                   refLive, strayTimers, okTimers, disabledBySubmit>>
    /\ UNCHANGED notF

FNext ==
    \/ SubmitForm
    \/ AppCheckDone
    \/ UploadDone
    \/ HookDone
    \/ FetchDone
    \/ CartDataDone
    \/ AfterDone
    \/ ErrorTimerFires
    \/ OkTimerFires
    \/ AnimationEnds

----------------------------------------------------------------------------
(* The VariantMatcher applied to the data of one upsell product and one    *)
(* main product.  The data obey the storefront's shape: a variant carries  *)
(* one non-empty value per option of its product.                          *)

\* option values of an upsell variant, for the options <<Size, Color>>
VariantValues ==
    { <<"Small", "Red">>, <<"small", "Blue">>, <<"LARGE", "red">>,
      <<"Large", "Blue">> }

\* option names of the upsell product
UpsellOptionNames ==
    { <<"Size", "Color">>, <<"Size", "Material">>, <<"Size">>, <<"Material">> }

VariantIdAt == <<"a", "b", "c", "d">>

\* the variant lists: the k-th variant has the k-th id
VariantLists(options) ==
    UNION { { [k \in 1..n |->
                 [id |-> VariantIdAt[k], name |-> VariantIdAt[k],
                  options |-> SubSeq(vals[k], 1, Len(options))]] :
              vals \in [1..n -> VariantValues] } : n \in 0..MaxVariants }

\* the main product: its options in the order the page lists them, its
\* variants, and the variant id asked for ("m9" is no variant of the product)
MatcherMainOptions ==
    { << [name |-> "Size", position |-> 1], [name |-> "Color", position |-> 2] >>,
      << [name |-> "Color", position |-> 2], [name |-> "Size", position |-> 1] >>,
      << [name |-> "Size", position |-> 1] >> }

MatcherMainVariants ==
    << [id |-> "m1", options |-> <<"small", "red">>],
       [id |-> "m2", options |-> <<"Large", "Blue">>] >>

MatcherVariantIds == {"m1", "m2", "m9"}

NoOutput ==
    [op |-> "none", k |-> 0, score |-> 0, variant |-> NoVariant, map |-> EmptyMap]

MInit ==
    /\ \E options \in UpsellOptionNames :
       \E variants \in VariantLists(options) :
       \E mainOptions \in MatcherMainOptions :
       \E variantId \in MatcherVariantIds :
          mIn = [variants |-> variants, options |-> options,
                 mainOptions |-> mainOptions, variantId |-> variantId]
    /\ mOut = NoOutput

MPark ==
    /\ mIn = [variants |-> << >>, options |-> << >>, mainOptions |-> << >>,
              variantId |-> "m9"]
    /\ mOut = NoOutput

\* the main option mapping the component hands to the matcher
MainMapOf(in) ==
    mapMainProductVariants(in.variantId, in.mainOptions, MatcherMainVariants)

\* VariantMatcher.mapMainProductVariants is called
MapMain ==
    /\ mOut' = [NoOutput EXCEPT !.op = "map", !.map = MainMapOf(mIn)]
    /\ UNCHANGED mIn
    /\ UNCHANGED notM

\* VariantMatcher.calculateMatchScore is called for one variant
Score ==
    /\ \E k \in 1..Len(mIn.variants) :
          mOut' = [NoOutput EXCEPT
                      !.op = "score", !.k = k,
                      !.score = calculateMatchScore(mIn.variants[k], mIn.options,
                                                    MainMapOf(mIn))]
    /\ UNCHANGED mIn
    /\ UNCHANGED notM

\* VariantMatcher.findBestMatchVariant is called for the upsell product
Match ==
    /\ mOut' = [NoOutput EXCEPT
                   !.op = "match",
                   !.variant = findBestMatchVariant(MainMapOf(mIn), "p",
                                                    [p \in {"p"} |-> mIn.variants],
                                                    [p \in {"p"} |-> mIn.options])]
    /\ UNCHANGED mIn
    /\ UNCHANGED notM

MNext ==
    \/ MapMain
    \/ Score
    \/ Match

----------------------------------------------------------------------------
(* HideConditionManager.parseHideConditions.  A string is the sequence of  *)
(* its pieces: words, the blank " ", and the marks : [ ] , ;               *)

\* String.prototype.trim: blanks at both ends go
RECURSIVE TrimStart(_)
TrimStart(str) ==
    IF str # << >> /\ Head(str) = " " THEN TrimStart(Tail(str)) ELSE str

RECURSIVE TrimEnd(_)
TrimEnd(str) ==
    IF str # << >> /\ str[Len(str)] = " "
    THEN TrimEnd(SubSeq(str, 1, Len(str) - 1)) ELSE str

TrimStr(str) == TrimEnd(TrimStart(str))

\* String.prototype.toLowerCase
LowerStr(str) == [k \in 1..Len(str) |-> ToLower(str[k])]

\* index of the first occurrence of a mark in str, 0 when there is none
IndexOf(str, mark) ==
    IF \E k \in 1..Len(str) : str[k] = mark
    THEN CHOOSE k \in 1..Len(str) :
            str[k] = mark /\ \A j \in 1..(k - 1) : str[j] # mark
    ELSE 0

\* String.prototype.split(separator)
RECURSIVE Split(_, _)
Split(str, separator) ==
    LET at == IndexOf(str, separator)
    IN  IF at = 0 THEN <<str>>
        ELSE <<SubSeq(str, 1, at - 1)>>
                \o Split(SubSeq(str, at + 1, Len(str)), separator)

\* names.map(name => name.trim()).filter(name => name.length > 0)
RECURSIVE TrimmedNames(_)
TrimmedNames(names) ==
    IF names = << >> THEN << >>
    ELSE (IF TrimStr(Head(names)) # << >> THEN <<TrimStr(Head(names))>> ELSE << >>)
            \o TrimmedNames(Tail(names))

NoCondition == [optionName |-> <<"null">>]

ParseWithoutTrim(condition) ==
    LET colon == IndexOf(condition, ":")
        rest == SubSeq(condition, colon + 1, Len(condition))
        open == IndexOf(rest, "[")
        list == SubSeq(rest, open + 1, Len(rest))
        close == IndexOf(list, "]")
    IN  IF colon < 2 \/ open < 2 \/ close < 2 \/ close # Len(list)
        THEN NoCondition
        ELSE [optionName |-> LowerStr(SubSeq(condition, 1, colon - 1)),
              optionValue |-> LowerStr(SubSeq(rest, 1, open - 1)),
              upsellProducts |-> Split(SubSeq(list, 1, close - 1), ",")]

\* /^([^:]+):([^[]+)\[([^\]]+)\]$/ : the name ends at the first ":", the
\* value at the first "[" after it, the list at the first "]" after that,
\* which has to be the end of the string; no group may be empty
parseSingleCondition(condition) ==
    LET colon == IndexOf(condition, ":")
        rest == SubSeq(condition, colon + 1, Len(condition))
        open == IndexOf(rest, "[")
        list == SubSeq(rest, open + 1, Len(rest))
        close == IndexOf(list, "]")
        optionName == SubSeq(condition, 1, colon - 1)
        optionValue == SubSeq(rest, 1, open - 1)
        upsellProductNames == SubSeq(list, 1, close - 1)
    IN  IF \/ colon < 2
           \/ open < 2
           \/ close < 2
           \/ close # Len(list)
        THEN NoCondition
        ELSE [optionName |-> LowerStr(TrimStr(optionName)),
              optionValue |-> LowerStr(TrimStr(optionValue)),
              upsellProducts |-> TrimmedNames(Split(upsellProductNames, ","))]

RECURSIVE ParseUntilMalformed(_)
ParseUntilMalformed(conditions) ==
    IF conditions = << >> THEN << >>
    ELSE IF parseSingleCondition(Head(conditions)) = NoCondition THEN << >>
    ELSE <<parseSingleCondition(Head(conditions))>>
            \o ParseUntilMalformed(Tail(conditions))

RECURSIVE ParseEach(_)
ParseEach(conditions) ==
    IF conditions = << >> THEN << >>
    ELSE (IF parseSingleCondition(Head(conditions)) # NoCondition
          THEN <<parseSingleCondition(Head(conditions))>> ELSE << >>)
            \o ParseEach(Tail(conditions))

\* a missing data attribute is the string <<"undefined">>
Undefined == <<"undefined">>

parseHideConditions(hideConditionsString) ==
    IF \/ hideConditionsString = Undefined
       \/ hideConditionsString = << >>
       \/ TrimStr(hideConditionsString) = << >>
    THEN << >>
    ELSE ParseEach(Split(hideConditionsString, ";"))

\* the entries a configuration string is written from.  A well-formed
\* entry is name:value[products], written tight or with blanks around its
\* parts; the other kinds fail that shape.
WellFormedEntries ==
    [kind : {"wellFormed"},
     name : {"Size", "Color"},
     value : {"Large"},
     products : { <<"Gift Wrap">>, <<"Gift Wrap", "extra brush">> },
     blanks : BOOLEAN]

MalformedKinds ==
    {"noBrackets", "noColon", "blankAfterBracket", "empty", "blank"}

MalformedEntries ==
    [kind : MalformedKinds, name : {"Size"}, value : {"Large"},
     products : { <<"Gift Wrap">> }, blanks : {FALSE}]

Entries == WellFormedEntries \cup MalformedEntries

Pad(e) == IF e.blanks THEN <<" ">> ELSE << >>

RECURSIVE JoinNames(_, _)
JoinNames(e, k) ==
    IF k > Len(e.products) THEN << >>
    ELSE (IF k > 1 THEN <<",">> ELSE << >>)
            \o Pad(e) \o <<e.products[k]>> \o Pad(e) \o JoinNames(e, k + 1)

\* the text of one entry
TextOf(e) ==
    CASE e.kind = "wellFormed" ->
            Pad(e) \o <<e.name>> \o Pad(e) \o <<":">> \o Pad(e) \o <<e.value>>
               \o Pad(e) \o <<"[">> \o JoinNames(e, 1) \o <<"]">>
      [] e.kind = "noBrackets" -> <<e.name, ":", e.value>>
      [] e.kind = "noColon" -> <<e.name, "[">> \o JoinNames(e, 1) \o <<"]">>
      [] e.kind = "blankAfterBracket" ->
            <<e.name, ":", e.value, "[">> \o JoinNames(e, 1) \o <<"]", " ">>
      [] e.kind = "empty" -> << >>
      [] e.kind = "blank" -> <<" ">>

\* the entries joined by ";"
RECURSIVE Joined(_)
Joined(entries) ==
    IF entries = << >> THEN << >>
    ELSE IF Len(entries) = 1 THEN TextOf(entries[1])
    ELSE TextOf(entries[1]) \o <<";">> \o Joined(Tail(entries))

EntryLists == UNION { [1..n -> Entries] : n \in 0..MaxEntries }

NotParsed == << [optionName |-> <<"not parsed">>] >>

\* dataset.hideConditions: a string written from entries, or no attribute
PInit ==
    /\ \/ \E entries \in EntryLists :
             pIn = [entries |-> entries, text |-> Joined(entries)]
       \/ pIn = [entries |-> << >>, text |-> Undefined]
    /\ pOut = NotParsed

PPark ==
    /\ pIn = [entries |-> << >>, text |-> Undefined]
    /\ pOut = NotParsed

\* #initializeProperties: parseHideConditions(this.dataset.hideConditions)
Parse ==
    /\ pOut = NotParsed
    /\ pOut' = parseHideConditions(pIn.text)
    /\ UNCHANGED pIn
    /\ UNCHANGED notP

PNext == Parse

----------------------------------------------------------------------------
(* The cart upsell widget: CartUpsellComponent.  The session storage       *)
(* outlives the page; a reload gives a fresh DOM and a fresh instance.     *)

STORAGE_KEY == "cart-upsell-dismissed"

\* the items the host renders, in document order, and their product ids
\* (data-upsell-dismiss / data-product-id)
KItems == <<"k1", "k2">>
KItemSet == {KItems[k] : k \in 1..Len(KItems)}
KProductId == [k1 |-> "p1", k2 |-> "p2"]

NoKey == <<"no key">>

\* JSON.stringify of an array of ids: [ id , id ]
RECURSIVE JoinIds(_)
JoinIds(ids) ==
    IF ids = << >> THEN << >>
    ELSE IF Len(ids) = 1 THEN <<ids[1]>>
    ELSE <<ids[1], ",">> \o JoinIds(Tail(ids))

JsonStringify(ids) == <<"[">> \o JoinIds(ids) \o <<"]">>

\* JSON.parse of such a string
RECURSIVE IdsOf(_)
IdsOf(pieces) ==
    IF pieces = << >> THEN << >>
    ELSE Head(pieces) \o IdsOf(Tail(pieces))

JsonParse(str) ==
    LET inner == SubSeq(str, 2, Len(str) - 1)
    IN  IF inner = << >> THEN << >> ELSE IdsOf(Split(inner, ","))

Includes(ids, id) == \E k \in 1..Len(ids) : ids[k] = id

\* the component's view of the DOM and the storage
KCur ==
    [storage |-> storage, itemDisplay |-> itemDisplay,
     widgetDisplay |-> widgetDisplay, flagPresent |-> flagPresent,
     flagAttr |-> flagAttr]

KApply(c) ==
    /\ storage' = c.storage
    /\ itemDisplay' = c.itemDisplay
    /\ widgetDisplay' = c.widgetDisplay
    /\ flagPresent' = c.flagPresent
    /\ flagAttr' = c.flagAttr

\* sessionStorage.getItem(STORAGE_KEY) || '[]', parsed
getDismissedProducts(c) ==
    JsonParse(IF c.storage = NoKey THEN <<"[", "]">> ELSE c.storage)

\* sessionStorage.setItem may throw (quota, storage disabled): caught
setDismissedProducts(c, dismissed, accepts) ==
    IF accepts THEN [c EXCEPT !.storage = JsonStringify(dismissed)] ELSE c

updateFlagElement(c) ==
    IF c.flagPresent
    THEN [c EXCEPT !.flagAttr = JsonStringify(getDismissedProducts(c))]
    ELSE c

ensureFlagElement(c) ==
    updateFlagElement([c EXCEPT !.flagPresent = TRUE,
                                !.flagAttr = IF c.flagPresent THEN @ ELSE << >>])

isDismissed(c, productId) == Includes(getDismissedProducts(c), productId)

checkAndHideComponent(c) ==
    IF \A i \in KItemSet : c.itemDisplay[i] = "none"
    THEN [c EXCEPT !.widgetDisplay = "none"] ELSE c

HideItemWithoutCheck(c, i) == [c EXCEPT !.itemDisplay[i] = "none"]

hideItem(c, i) == checkAndHideComponent([c EXCEPT !.itemDisplay[i] = "none"])

SaveWithoutIncludesCheck(c, productId, accepts) ==
    updateFlagElement(
        setDismissedProducts(c, Append(getDismissedProducts(c), productId),
                             accepts))

saveDismissedState(c, productId, accepts) ==
    LET dismissed == getDismissedProducts(c)
    IN  IF ~Includes(dismissed, productId)
        THEN updateFlagElement(
                 setDismissedProducts(c, Append(dismissed, productId), accepts))
        ELSE c

RECURSIVE HideDismissedFrom(_, _)
HideDismissedFrom(c, k) ==
    IF k > Len(KItems) THEN c
    ELSE HideDismissedFrom(
             IF isDismissed(c, KProductId[KItems[k]]) THEN hideItem(c, KItems[k])
             ELSE c,
             k + 1)

HideNoDismissedItem(c) == checkAndHideComponent(c)

hideDismissedItems(c) == checkAndHideComponent(HideDismissedFrom(c, 1))

clearDismissedStates(c) == updateFlagElement([c EXCEPT !.storage = NoKey])

\* the DOM as the host renders it
FreshDom(c) ==
    [c EXCEPT !.itemDisplay = [i \in KItemSet |-> ""],
              !.widgetDisplay = "",
              !.flagPresent = FALSE,
              !.flagAttr = << >>]

\* a step of the component: the operation, the item, whether the storage
\* accepted a write, whether a CartUpdateEvent was dispatched
Step(op, item, accepts) ==
    [op |-> op, item |-> item, accepts |-> accepts, event |-> FALSE]

KInit ==
    /\ storage = NoKey
    /\ itemDisplay = [i \in KItemSet |-> ""]
    /\ widgetDisplay = ""
    /\ flagPresent = FALSE
    /\ flagAttr = << >>
    /\ observerPending = FALSE
    /\ addPc = [i \in KItemSet |-> "idle"]
    /\ loading = [i \in KItemSet |-> FALSE]
    /\ resetArmed = [i \in KItemSet |-> FALSE]
    /\ lastK = Step("none", "none", TRUE)

KPark == KInit

Clickable(i) == itemDisplay[i] # "none" /\ widgetDisplay # "none"

\* the page is loaded (again): fresh DOM, connectedCallback of a new instance
Reload ==
    /\ KApply(hideDismissedItems(ensureFlagElement(FreshDom(KCur))))
    /\ observerPending' = FALSE
    /\ addPc' = [i \in KItemSet |-> "idle"]
    /\ loading' = [i \in KItemSet |-> FALSE]
    /\ resetArmed' = [i \in KItemSet |-> FALSE]
    /\ lastK' = Step("reload", "none", TRUE)
    /\ UNCHANGED notK

\* the shopper clicks the dismiss button of an item: handleDismiss
Dismiss ==
    /\ lastK.op # "none"
    /\ \E i \in KItemSet, accepts \in BOOLEAN :
          /\ Clickable(i)
          /\ KApply(saveDismissedState(hideItem(KCur, i), KProductId[i], accepts))
          /\ lastK' = Step("dismiss", i, accepts)
    /\ UNCHANGED <<observerPending, addPc, loading, resetArmed>>
    /\ UNCHANGED notK

\* the shopper clicks the add button of an item: handleAddToCart up to the
\* fetch of addToCart
AddClick ==
    /\ lastK.op # "none"
    /\ \E i \in KItemSet :
          /\ Clickable(i)
          /\ ~loading[i]
          /\ addPc[i] = "idle"
          /\ addPc' = [addPc EXCEPT ![i] = "fetch"]
          /\ loading' = [loading EXCEPT ![i] = TRUE]
          /\ lastK' = Step("addClick", i, TRUE)
    /\ UNCHANGED <<storage, itemDisplay, widgetDisplay, flagPresent, flagAttr,
                   observerPending, resetArmed>>
    /\ UNCHANGED notK

\* a processAddToCart whose success branch re-enables the button at once
\* instead of arming the reset timer
AddDoneResetsAtOnce ==
    /\ \E i \in KItemSet, response \in {"ok", "notOk", "networkError"},
          accepts \in BOOLEAN :
          /\ addPc[i] = "fetch"
          /\ addPc' = [addPc EXCEPT ![i] = "idle"]
          /\ loading' = [loading EXCEPT ![i] = FALSE]
          /\ UNCHANGED resetArmed
          /\ IF response = "ok"
             THEN /\ KApply(saveDismissedState(hideItem(KCur, i), KProductId[i],
                                               accepts))
                  /\ lastK' = [Step("added", i, accepts) EXCEPT !.event = TRUE]
             ELSE /\ KApply(KCur)
                  /\ lastK' = Step("addFailed", i, TRUE)
    /\ UNCHANGED observerPending
    /\ UNCHANGED notK

\* the cart API answers or the request fails: the rest of processAddToCart
AddDone ==
    /\ \E i \in KItemSet, response \in {"ok", "notOk", "networkError"},
          accepts \in BOOLEAN :
          /\ addPc[i] = "fetch"
          /\ addPc' = [addPc EXCEPT ![i] = "idle"]
          /\ IF response = "ok"
             THEN /\ KApply(saveDismissedState(hideItem(KCur, i), KProductId[i],
                                               accepts))
                  /\ resetArmed' = [resetArmed EXCEPT ![i] = TRUE]
                  /\ UNCHANGED loading
                  /\ lastK' = [Step("added", i, accepts) EXCEPT !.event = TRUE]
             ELSE /\ KApply(KCur)
                  /\ loading' = [loading EXCEPT ![i] = FALSE]
                  /\ UNCHANGED resetArmed
                  /\ lastK' = Step("addFailed", i, TRUE)
    /\ UNCHANGED observerPending
    /\ UNCHANGED notK

\* the BUTTON_RESET_DELAY timer of resetButtonAfterDelay fires
ResetTimerFires ==
    /\ \E i \in KItemSet :
          /\ resetArmed[i]
          /\ resetArmed' = [resetArmed EXCEPT ![i] = FALSE]
          /\ loading' = [loading EXCEPT ![i] = FALSE]
          /\ lastK' = Step("resetTimer", i, TRUE)
    /\ UNCHANGED <<storage, itemDisplay, widgetDisplay, flagPresent, flagAttr,
                   observerPending, addPc>>
    /\ UNCHANGED notK

\* the host re-renders the widget's content: the items are visible again,
\* and the flag element is removed or kept
HostMorph ==
    /\ lastK.op # "none"
    /\ \E removesFlag \in BOOLEAN :
          /\ itemDisplay' = [i \in KItemSet |-> ""]
          /\ flagPresent' = (flagPresent /\ ~removesFlag)
          /\ flagAttr' = IF flagPresent /\ ~removesFlag THEN flagAttr ELSE << >>
          /\ observerPending' = (observerPending \/ (flagPresent /\ removesFlag))
          /\ lastK' = Step("morph", "none", ~removesFlag)
    /\ UNCHANGED <<storage, widgetDisplay, addPc, loading, resetArmed>>
    /\ UNCHANGED notK

\* the MutationObserver callback runs for a removed flag element
ObserverRuns ==
    /\ observerPending
    /\ observerPending' = FALSE
    /\ KApply(hideDismissedItems(ensureFlagElement(KCur)))
    /\ lastK' = Step("observer", "none", TRUE)
    /\ UNCHANGED <<addPc, loading, resetArmed>>
    /\ UNCHANGED notK

\* a caller uses clearDismissedStates()
ClearDismissed ==
    /\ lastK.op # "none"
    /\ KApply(clearDismissedStates(KCur))
    /\ lastK' = Step("clear", "none", TRUE)
    /\ UNCHANGED <<observerPending, addPc, loading, resetArmed>>
    /\ UNCHANGED notK

KNext ==
    \/ Reload
    \/ Dismiss
    \/ AddClick
    \/ AddDone
    \/ ResetTimerFires
    \/ HostMorph
    \/ ObserverRuns
    \/ ClearDismissed

----------------------------------------------------------------------------
(* UdoPaintsEditorManager.waitForManager: one call, its checkManager       *)
(* closure and the timers it sets.                                         *)

WCur ==
    [wState |-> wState, attempts |-> attempts, wTimer |-> wTimer,
     settles |-> settles, readyChecks |-> readyChecks]

WApply(w) ==
    /\ wState' = w.wState
    /\ attempts' = w.attempts
    /\ wTimer' = w.wTimer
    /\ settles' = w.settles
    /\ readyChecks' = w.readyChecks

\* resolve() and reject() of the promise: only the first call settles it
Settled(w, how) ==
    [w EXCEPT !.wState = IF @ = "pending" THEN how ELSE @,
              !.settles = @ + 1]

CheckOnceMore(w, ready) ==
    LET w1 == [w EXCEPT !.attempts = @ + 1]
    IN  IF ready
        THEN Settled([w1 EXCEPT !.readyChecks = @ + 1], "resolved")
        ELSE IF w1.attempts > maxAttempts THEN Settled(w1, "rejected")
        ELSE [w1 EXCEPT !.wTimer = TRUE]

\* one run of checkManager
checkManager(w, ready) ==
    LET w1 == [w EXCEPT !.attempts = @ + 1]
    IN  IF ready
        THEN Settled([w1 EXCEPT !.readyChecks = @ + 1], "resolved")
        ELSE IF w1.attempts >= maxAttempts THEN Settled(w1, "rejected")
        ELSE [w1 EXCEPT !.wTimer = TRUE]

WInit ==
    /\ wState = "idle"
    /\ attempts = 0
    /\ wTimer = FALSE
    /\ wManagerReady \in BOOLEAN
    /\ settles = 0
    /\ wClock = 0
    /\ readyChecks = 0

WPark == WInit /\ ~wManagerReady

\* waitForManager(): the executor of the promise runs checkManager at once
WaitForManager ==
    /\ wState = "idle"
    /\ WApply(checkManager([WCur EXCEPT !.wState = "pending"], wManagerReady))
    /\ UNCHANGED <<wManagerReady, wClock>>
    /\ UNCHANGED notW

\* the global manager finds the editor: isReady turns true and stays true
ManagerTurnsReady ==
    /\ ~wManagerReady
    /\ wManagerReady' = TRUE
    /\ UNCHANGED <<wState, attempts, wTimer, settles, wClock, readyChecks>>
    /\ UNCHANGED notW

\* the timer set by checkManager fires after #attemptInterval
CheckTimerFires ==
    /\ wTimer
    /\ wClock' = wClock + attemptInterval
    /\ WApply(checkManager([WCur EXCEPT !.wTimer = FALSE], wManagerReady))
    /\ UNCHANGED wManagerReady
    /\ UNCHANGED notW

WNext ==
    \/ WaitForManager
    \/ ManagerTurnsReady
    \/ CheckTimerFires

----------------------------------------------------------------------------
(* ProductFormComponent.#getLineItemProperties applied to a result of the  *)
(* pre-add-to-cart hook, and whether handleSubmit goes on to #addToCart    *)

NoProperties == [threw |-> FALSE, properties |-> {}, requested |-> FALSE]

HInit ==
    /\ \E feature \in Features, images \in HookResults :
          hIn = [feature |-> feature, images |-> images]
    /\ hOut = NoProperties

HPark ==
    /\ hIn = [feature |-> "gallery-kit", images |-> Images("full", "full", "full")]
    /\ hOut = NoProperties

\* handleSubmit from `await this.#getLineItemProperties(...)` on: an
\* exception leaves handleSubmit before #addToCart sends the request
GetLineItemProperties ==
    /\ hOut = NoProperties
    /\ LET result == getLineItemProperties(hIn.feature, hIn.images)
       IN  hOut' = [threw |-> result.threw, properties |-> result.properties,
                    requested |-> ~result.threw]
    /\ UNCHANGED hIn
    /\ UNCHANGED notH

HNext == GetLineItemProperties

----------------------------------------------------------------------------
(* AddToCartComponent: handleClick, the handler it passes to the bridge's   *)
(* onStateChange, and the calls handleSubmit makes on it                    *)

UploadStates == {"upload-state:loading", "upload-state:success"}

\* states the handler has no branch for
OtherStates == {"editor:ready", "upload-state:error"}

AInit ==
    /\ aReady \in BOOLEAN
    /\ aQueued = 0
    /\ aHandlers = 0
    /\ aDisabled = FALSE
    /\ aUpload = "none"
    /\ aLast = "none"
    /\ aAdding = FALSE

APark == AInit /\ ~aReady

\* the shopper clicks the button: handleClick, and for a valid form
\* listenToAppBlockState, whose handler the manager's onStateChange passes to
\* the editor at once or queues until the manager is ready
HandleClick ==
    /\ ~aDisabled
    /\ aQueued + aHandlers < MaxClicks
    /\ \E valid \in BOOLEAN :
          IF ~valid THEN UNCHANGED <<aQueued, aHandlers>>
          ELSE IF aReady
          THEN aHandlers' = aHandlers + 1 /\ UNCHANGED aQueued
          ELSE aQueued' = aQueued + 1 /\ UNCHANGED aHandlers
    /\ UNCHANGED <<aReady, aDisabled, aUpload, aLast, aAdding>>
    /\ UNCHANGED notA

\* the manager finds the editor: the queued callbacks register their handlers
ManagerFindsEditor ==
    /\ ~aReady
    /\ aReady' = TRUE
    /\ aHandlers' = aHandlers + aQueued
    /\ aQueued' = 0
    /\ UNCHANGED <<aDisabled, aUpload, aLast, aAdding>>
    /\ UNCHANGED notA

\* the editor notifies a state: every registered handler of the component runs
StateNotified ==
    /\ aReady
    /\ \E state \in UploadStates \cup OtherStates :
          /\ aLast' = state
          /\ aUpload' = CASE state = "upload-state:loading" -> "loading"
                           [] state = "upload-state:success" -> "success"
                           [] OTHER -> aUpload
          /\ aDisabled' = IF aHandlers = 0 THEN aDisabled
                          ELSE CASE state = "upload-state:loading" -> TRUE
                                 [] state = "upload-state:success" -> FALSE
                                 [] OTHER -> aDisabled
    /\ UNCHANGED <<aReady, aQueued, aHandlers, aAdding>>
    /\ UNCHANGED notA

\* handleSubmit, begun while the button was enabled, reaches
\* handleStartedAddingToCart
StartedAdding ==
    /\ ~aAdding
    /\ ~aDisabled
    /\ aAdding' = TRUE
    /\ aDisabled' = TRUE
    /\ UNCHANGED <<aReady, aQueued, aHandlers, aUpload, aLast>>
    /\ UNCHANGED notA

\* that handleSubmit reaches handleSuccessfulAddToCart: enable()
SuccessfulAdd ==
    /\ aAdding
    /\ aAdding' = FALSE
    /\ aDisabled' = FALSE
    /\ UNCHANGED <<aReady, aQueued, aHandlers, aUpload, aLast>>
    /\ UNCHANGED notA

ANext ==
    \/ HandleClick
    \/ ManagerFindsEditor
    \/ StateNotified
    \/ StartedAdding
    \/ SuccessfulAdd

----------------------------------------------------------------------------
(* The specifications *)

UPark ==
    /\ UInit
    /\ ~windowReady
    /\ ~syncVariants

Init == UInit /\ DPark /\ BPark /\ FPark /\ MPark /\ PPark /\ KPark /\ WPark /\ HPark /\ APark

Next == UNext

Spec == Init /\ [][Next]_vars

\* the upsell component on a page whose embedded data may be malformed:
\* initialisation and the events its document listeners are for
InitData ==
    /\ \E block \in DataBlocks \cup {"none"} : UInitOf(block)
    /\ DPark /\ BPark /\ FPark /\ MPark /\ PPark /\ KPark /\ WPark /\ HPark /\ APark

NextData ==
    \/ Connect
    \/ Disconnect
    \/ EditorLoads
    \/ WaitResolve
    \/ WaitReject
    \/ InitCheckDone
    \/ VariantSelected
    \/ CartUpdate

SpecData == InitData /\ [][NextData]_vars

\* the upsell component without the operations that write neither the
\* readiness, the hidden set, the best-match variants nor the price elements
\* (checkbox clicks, cart updates, submits)
InitPrice == Init

NextPrice ==
    \/ Connect
    \/ Disconnect
    \/ EditorLoads
    \/ WaitResolve
    \/ WaitReject
    \/ InitCheckDone
    \/ StateChange
    \/ CheckDone
    \/ VariantSelected
    \/ HideCall
    \/ ShowCall

SpecPrice == InitPrice /\ [][NextPrice]_vars

\* the upsell component with the operations that evaluate the hide
\* conditions, and the ones that hide items or check their checkboxes
InitHide == Init

NextHide ==
    \/ Connect
    \/ EditorLoads
    \/ WaitResolve
    \/ WaitReject
    \/ InitCheckDone
    \/ StateChange
    \/ CheckDone
    \/ CheckboxClick
    \/ VariantSelected
    \/ HideCall
    \/ Disconnect

SpecHide == InitHide /\ [][NextHide]_vars

\* the upsell component with readiness checks that overlap: initialisation,
\* editor state changes and the answers to the checks, in any order
InitRace ==
    /\ UInitWith("none", MaxOverlap)
    /\ DPark /\ BPark /\ FPark /\ MPark /\ PPark /\ KPark /\ WPark /\ HPark /\ APark

NextRace ==
    \/ Connect
    \/ EditorLoads
    \/ WaitResolve
    \/ InitCheckDone
    \/ StateChange
    \/ CheckDone
    \/ VariantSelected

SpecRace == InitRace /\ [][NextRace]_vars

InitWait ==
    /\ UPark /\ DPark /\ BPark /\ FPark /\ MPark /\ PPark /\ KPark /\ WInit /\ HPark /\ APark

NextWait == WNext

SpecWait == InitWait /\ [][NextWait]_vars

InitProps ==
    UPark /\ DPark /\ BPark /\ FPark /\ MPark /\ PPark /\ KPark /\ WPark /\ HInit /\ APark

NextProps == HNext

SpecProps == InitProps /\ [][NextProps]_vars

InitButton ==
    UPark /\ DPark /\ BPark /\ FPark /\ MPark /\ PPark /\ KPark /\ WPark /\ HPark
    /\ AInit

NextButton == ANext

SpecButton == InitButton /\ [][NextButton]_vars

InitDetect == UPark /\ DInit /\ BPark /\ FPark /\ MPark /\ PPark /\ KPark /\ WPark /\ HPark /\ APark

NextDetect == DNext

SpecDetect == InitDetect /\ [][NextDetect]_vars

InitBridge == UPark /\ DPark /\ BInit /\ FPark /\ MPark /\ PPark /\ KPark /\ WPark /\ HPark /\ APark

NextBridge == BNext

SpecBridge == InitBridge /\ [][NextBridge]_vars

InitForm == UPark /\ DPark /\ BPark /\ FInit /\ MPark /\ PPark /\ KPark /\ WPark /\ HPark /\ APark

NextForm == FNext

SpecForm == InitForm /\ [][NextForm]_vars

InitMatcher == UPark /\ DPark /\ BPark /\ FPark /\ MInit /\ PPark /\ KPark /\ WPark /\ HPark /\ APark

NextMatcher == MNext

SpecMatcher == InitMatcher /\ [][NextMatcher]_vars

InitParse == UPark /\ DPark /\ BPark /\ FPark /\ MPark /\ PInit /\ KPark /\ WPark /\ HPark /\ APark

NextParse == PNext

SpecParse == InitParse /\ [][NextParse]_vars

InitCart == UPark /\ DPark /\ BPark /\ FPark /\ MPark /\ PPark /\ KInit /\ WPark /\ HPark /\ APark

NextCart == KNext

SpecCart == InitCart /\ [][NextCart]_vars

----------------------------------------------------------------------------
(* Properties of the upsell component *)

IsUpsellInput(f) == StartsWith(f.name, UPSELL_PRODUCT_PREFIX)

UpsellInputs == SelectSeq(inputs, IsUpsellInput)

\* the hidden field #setHiddenUpsellInputs creates for a variant
InputOf(variant) ==
    [name |-> UPSELL_PRODUCT_PREFIX \o <<variant.id>>, value |-> variant.name]

\* an injected field belongs to the item whose variant it names
BelongsTo(f, i) ==
    /\ IsUpsellInput(f)
    /\ \E k \in 1..Len(UpsellVariantsJson[i]) :
          f.name = UPSELL_PRODUCT_PREFIX \o <<UpsellVariantsJson[i][k].id>>

IsHidden(i) == i \in hidden \/ ComputedDisplay(Cur, i) = "none"

\* C1: in a connected component a hidden upsell item never has its checkbox
\* checked, and the form never holds an `_upsell_variant_` field of a hidden
\* item.
C1_HiddenItemNeverSelected ==
    status = "connected" =>
        \A i \in Items :
            IsHidden(i) =>
                /\ ~checked[i]
                /\ \A k \in 1..Len(inputs) : ~BelongsTo(inputs[k], i)

\* an item is hidden while the form carries the field of another, checked item
C1_Witness ==
    /\ status = "connected"
    /\ lastOp \in {"hideCall", "checkDone", "variantSelected"}
    /\ \E i \in Items : IsHidden(i) /\ ~checked[i]
    /\ \E j \in Items :
          /\ ~IsHidden(j) /\ checked[j]
          /\ \E k \in 1..Len(inputs) : BelongsTo(inputs[k], j)

\* C2: when the form is submitted it holds exactly one field
\* `_upsell_variant_<variantId>` (value: the variant's name) for each upsell
\* checkbox that is checked and visible, and no other field with the prefix.
C2_SubmittedFieldsMatchSelection ==
    (lastOp = "submit" /\ status = "connected" /\ isReady) =>
        /\ \A i \in Items :
              (checked[i] /\ ~IsHidden(i)) =>
                  /\ best[i] # NoVariant
                  /\ Cardinality({k \in 1..Len(UpsellInputs) :
                                     UpsellInputs[k] = InputOf(best[i])}) = 1
        /\ \A k \in 1..Len(UpsellInputs) :
              \E i \in Items :
                  /\ checked[i] /\ ~IsHidden(i)
                  /\ BelongsTo(UpsellInputs[k], i)

\* C4: after the component's cart-update handler has run, every checkbox is
\* unchecked and the form holds no `_upsell_variant_` field.
C4_CartUpdateClearsSelection ==
    (lastOp = "cartUpdate" /\ docListening) =>
        /\ \A i \in Items : ~checked[i]
        /\ Len(UpsellInputs) = 0

\* the handler has run in a component that can inject fields
C4_Witness ==
    /\ lastOp = "cartUpdate"
    /\ docListening
    /\ cbListening
    /\ isReady
    /\ \E i \in Items : best[i] # NoVariant /\ ~IsHidden(i)

BridgeFailed == mgrRejected \/ lastAnswer \in {"notReady", "threw"}

\* C5: while the bridge has failed (waitForManager rejected, or the last
\* completed readiness check was not ready or threw) every item is hidden
\* and unchecked, whatever events arrive, unless a caller has shown an item
\* explicitly since.
C5_BridgeFailureHidesAll ==
    (BridgeFailed /\ ~shownByCall) =>
        \A i \in Items : i \in hidden /\ ComputedDisplay(Cur, i) = "none"
                                       /\ ~checked[i]

\* a variant-selected event has been handled in the failed state
C5_Witness ==
    /\ BridgeFailed
    /\ ~shownByCall
    /\ lastOp = "variantSelected"
    /\ docListening
    /\ mainSelected # InitialVariantId
    /\ \A i \in Items : i \in hidden

\* C10: once the instance is disconnected none of the handlers it registered
\* runs again.
C10_NoHandlerAfterDisconnect ==
    status = "disconnected" => lastHandler = "none"

----------------------------------------------------------------------------
(* Properties of #detectUpsellProducts *)

UpsellFields == SelectSeq(dIn.fields, IsUpsellKey)

HasTitle == Truthy(Lookup(dIn.fields, <<"product-title">>))

\* one line item per `_upsell_variant_` field, in field order
OneLineItemPerField ==
    /\ Len(dOut.upsellProducts) = Len(UpsellFields)
    /\ \A k \in 1..Len(UpsellFields) :
          LET item == dOut.upsellProducts[k]
          IN  /\ UPSELL_PRODUCT_PREFIX \o item.id = UpsellFields[k].key
              /\ item.quantity = 1
              /\ Lookup(item.properties, <<"Product">>) =
                 Lookup(dIn.fields, <<"product-title">>)

NoUpsellKeyAtTopLevel ==
    \A k \in 1..Len(dOut.cleanFormJsonData.fields) :
        ~IsUpsellKey(dOut.cleanFormJsonData.fields[k])

NoUpsellKeyInProperties ==
    \A k \in 1..Len(dOut.cleanFormJsonData.properties) :
        ~IsUpsellKey(dOut.cleanFormJsonData.properties[k])

\* C3 as stated: with a product title, every `_upsell_variant_` field becomes
\* one upsell line item and the primary line item carries no entry, at any
\* level, whose key starts with the prefix.
C3_Original ==
    (dpc = "done" /\ HasTitle) =>
        /\ OneLineItemPerField
        /\ NoUpsellKeyAtTopLevel
        /\ NoUpsellKeyInProperties

\* C3 (amended): with a product title, every `_upsell_variant_` field becomes
\* one upsell line item (id = name without the prefix, quantity 1,
\* properties.Product = the product title); the primary line item has no
\* top-level entry with the prefix, every other top-level entry is kept, and
\* the prefixed entries are carried in its `properties` object instead.
C3_UpsellFieldsBecomeLineItems ==
    (dpc = "done" /\ HasTitle) =>
        /\ OneLineItemPerField
        /\ NoUpsellKeyAtTopLevel
        /\ \A k \in 1..Len(dIn.fields) :
              ~IsUpsellKey(dIn.fields[k]) =>
                  Lookup(dOut.cleanFormJsonData.fields, dIn.fields[k].key) =
                  dIn.fields[k].value
        /\ \A k \in 1..Len(UpsellFields) :
              Lookup(dOut.cleanFormJsonData.properties, UpsellFields[k].key) =
              UpsellFields[k].value
        /\ \A k \in 1..Len(dIn.properties) :
              Lookup(dOut.cleanFormJsonData.properties, dIn.properties[k].key) =
              dIn.properties[k].value

\* two upsell fields and a look-alike key have been split off
C3_Witness ==
    /\ dpc = "done"
    /\ HasTitle
    /\ Len(UpsellFields) = 2
    /\ Len(dOut.upsellProducts) = 2
    /\ Lookup(dIn.fields, <<"note", "_upsell_variant_">>) # NoValue

\* the form data holds no product title: the field is missing or empty
NoTitle == Lookup(dIn.fields, <<"product-title">>) \in {NoValue, ""}

\* C33: when the submitted form data holds `_upsell_variant_` fields but no
\* product title, #detectUpsellProducts reports the error to the bridge,
\* returns no upsell line item and returns the form data unchanged.
C33_NoTitleNoUpsellLineItems ==
    (dpc = "done" /\ Len(UpsellFields) > 0 /\ NoTitle) =>
        /\ dOut.onError
        /\ dOut.upsellProducts = << >>
        /\ dOut.cleanFormJsonData = dIn

\* two upsell fields were submitted with an empty product title
C33_Witness ==
    /\ dpc = "done"
    /\ Len(UpsellFields) = 2
    /\ Lookup(dIn.fields, <<"product-title">>) = ""
    /\ dOut.onError
    /\ Len(dOut.cleanFormJsonData.fields) = Len(dIn.fields)

----------------------------------------------------------------------------
(* Properties of the bridge manager *)

\* C6: every wrapper settles without rejecting; with the editor unavailable
\* or its method throwing, the promise resolves to {success:false, error}.
\* A call made while the editor is unavailable is therefore not left pending
\* once the availability checks have reached the attempt bound.
C6_WrappersAlwaysSettle ==
    \A m \in Wrappers :
        /\ call[m].st # "rejected"
        /\ (call[m].st = "resolved" /\ call[m].res.from = "wrapper") =>
               (~call[m].res.success /\ call[m].res.error # "")
        /\ (call[m].st = "queued" /\ ~editorPresent) => polls < maxAttempts

\* C7: the polling for the editor object is bounded: once the attempt bound
\* is reached without the editor, no further check is scheduled.
C7_PollingIsBounded ==
    (polls >= maxAttempts /\ ~editorPresent) => ~timerArmed

----------------------------------------------------------------------------
(* Properties of the product form *)

Quiescent == \A s \in Subs : subs[s].pc \notin InFlight

\* C8: a submission that disabled the add-to-cart control re-enables it
\* whatever its outcome: once no submission is in progress the control is
\* not left disabled by handleStartedAddingToCart.
C8_ControlReenabled ==
    Quiescent => ~(disabledBySubmit /\ btnDisabled)

\* C9: an error shown for an error-status answer of the cart API is cleared
\* after the fixed delay whatever submissions follow: once no submission is
\* in progress, while the inline message is shown, or the live region
\* carries it, a timer that clears it is pending.
C9_ErrorIsAutoCleared ==
    Quiescent =>
        /\ errorShown => (refLive \/ strayTimers > 0)
        /\ liveRegion = "error" =>
               (refLive \/ strayTimers > 0 \/ okTimers > 0)

\* a queued callback has not been invoked and stands in readyCallbacks at the
\* place it was registered at; a callback that runs or has settled was
\* invoked once, by onReady itself or in its turn; nothing is queued while
\* the manager is ready
CallbacksInvokedOnce ==
    /\ bReady => readyCallbacks = << >>
    /\ \A m \in Wrappers :
          /\ call[m].st = "queued"
                => /\ ~bReady
                   /\ call[m].runs = 0
                   /\ call[m].ticket \in 1..Len(readyCallbacks)
                   /\ readyCallbacks[call[m].ticket] = m
          /\ call[m].st \in {"running", "resolved"}
                => /\ bReady
                   /\ call[m].runs = 1
          /\ call[m].st = "running" => call[m].via \in {"atOnce", "inTurn"}
    /\ \A k \in 1..Len(readyCallbacks) : call[readyCallbacks[k]].st = "queued"

\* C37: every callback passed to onReady is invoked exactly once: at once
\* when the manager is ready, otherwise when checkAvailability first finds
\* the editor, in registration order; isReady never goes back from true to
\* false and no callback stays queued once isReady is true.
C37_ReadyCallbacksRunOnceInOrder ==
    []CallbacksInvokedOnce /\ [][bReady => bReady']_vars

\* three callbacks that were queued while the editor was missing have been
\* invoked by checkAvailability, and a fourth by onReady itself after that
C37_Witness ==
    /\ bReady
    /\ Cardinality({m \in Wrappers : call[m].st = "running"
                                      /\ call[m].via = "inTurn"}) = 3
    /\ \E m \in Wrappers : call[m].st = "running" /\ call[m].via = "atOnce"
    /\ \A m \in Wrappers : call[m].runs = 1

----------------------------------------------------------------------------
(* Properties of hiding and showing, of the hide conditions and of the     *)
(* best-match cache                                                        *)

\* C11: an item that was hidden and is shown again has the display mode it
\* had at the moment it was hidden, whatever other items were hidden or
\* shown in between.
C11_ShowRestoresDisplay ==
    \A i \in Items :
        (modeAtHide[i] # "" /\ ~IsHidden(i)) => display[i] = modeAtHide[i]

\* the option mapping of a main variant, from the data the page carries
MappingOf(v) ==
    mapMainProductVariants(v, MainProductOptionsJson, MainProductVariantsJson)

\* the items the hide conditions name for a main variant
ExpectedHidden(v) ==
    LET opts == normalizeOptions(MappingOf(v))
    IN  {i \in Items :
            \E k \in 1..Len(HideConditions) :
               /\ HideConditions[k].optionName \in DOMAIN opts
               /\ opts[HideConditions[k].optionName] = HideConditions[k].optionValue
               /\ \E n \in 1..Len(HideConditions[k].upsellProducts) :
                     ToLower(HideConditions[k].upsellProducts[n]) =
                     ToLower(Trim(ItemTitle[i]))}

\* the component is initialized with its variant data, the bridge is ready
\* and the component has handled the latest variant-selected event
InitializedAndReady ==
    /\ heard = mainSelected
    /\ status = "connected"
    /\ pc = "done"
    /\ syncVariants
    /\ isReady

\* C12: while the bridge is ready, right after the initial readiness check,
\* a variant-selected event or a readiness check triggered by an editor
\* state change, the hidden items are those the hide conditions give for
\* the main product's currently selected variant.
C12_HiddenFollowsSelectedVariant ==
    (InitializedAndReady /\ lastOp \in {"initCheck", "checkDone", "variantSelected"})
        => hidden = ExpectedHidden(mainSelected)

\* the best match of an upsell item for a main variant
BestFor(v, i) ==
    findBestMatchVariant(MappingOf(v), i, UpsellVariantsJson, UpsellOptionsJson)

\* C13: at any time after initialization (bridge ready) the best-match
\* variant stored for each checkbox is the best match for the main
\* product's currently selected variant.
C13_BestMatchFollowsSelectedVariant ==
    InitializedAndReady => \A i \in Items : best[i] = BestFor(mainSelected, i)

----------------------------------------------------------------------------
(* Properties of the VariantMatcher *)

\* the score of the k-th variant of the input
ScoreOf(k) ==
    calculateMatchScore(mIn.variants[k], mIn.options, MainMapOf(mIn))

Positions == 1..Len(mIn.variants)

\* C14: for a non-empty variant list in which some variant scores above 0,
\* the best-match selection returns the variant with the highest score, and
\* among those with the highest score the first of the list.
C14_BestMatchIsFirstHighest ==
    (mOut.op = "match" /\ \E k \in Positions : ScoreOf(k) > 0)
        => \E k \in Positions :
              /\ mOut.variant = mIn.variants[k]
              /\ \A j \in Positions : ScoreOf(j) <= ScoreOf(k)
              /\ \A j \in Positions : j < k => ScoreOf(j) < ScoreOf(k)

\* a tie for the highest score behind a lower score: the first of the tie
C14_Witness ==
    /\ mOut.op = "match"
    /\ Len(mIn.variants) = 3
    /\ ScoreOf(1) < ScoreOf(2)
    /\ ScoreOf(2) = ScoreOf(3)
    /\ mOut.variant = mIn.variants[2]

\* C15: findBestMatchVariant returns null only for an empty variant list;
\* for a non-empty list it returns a member of the list, and the first
\* variant when every variant scores 0.
C15_NullOnlyWithoutVariants ==
    mOut.op = "match"
        => /\ mOut.variant = NoVariant => Len(mIn.variants) = 0
           /\ Len(mIn.variants) > 0
                 => \E k \in Positions : mOut.variant = mIn.variants[k]
           /\ (Len(mIn.variants) > 0 /\ \A k \in Positions : ScoreOf(k) = 0)
                 => mOut.variant = mIn.variants[1]

\* several variants that all score 0: the first one is returned
C15_Witness ==
    /\ mOut.op = "match"
    /\ Len(mIn.variants) >= 2
    /\ \A k \in Positions : ScoreOf(k) = 0
    /\ mOut.variant = mIn.variants[1]

\* the option positions of the upsell product whose name the main option
\* mapping carries, and those among them whose values agree ignoring case
ComparablePositions ==
    {p \in 1..Len(mIn.options) : mIn.options[p] \in DOMAIN MainMapOf(mIn)}

MatchingPositions ==
    {p \in ComparablePositions :
        ToLower(mIn.variants[mOut.k].options[p]) =
        ToLower(MainMapOf(mIn)[mIn.options[p]])}

\* C16: calculateMatchScore is matching / comparable * 100 over the option
\* positions whose name is in the main option mapping, values compared
\* ignoring case; 0 without a comparable position; always within 0..100.
C16_ScoreIsShareOfMatchingOptions ==
    mOut.op = "score"
        => /\ mOut.score \in 0..100
           /\ mOut.score =
                 IF ComparablePositions = {} THEN 0
                 ELSE (Cardinality(MatchingPositions) * 100)
                         \div Cardinality(ComparablePositions)
           /\ (ComparablePositions # {} /\ MatchingPositions = ComparablePositions)
                 => mOut.score = 100
           /\ MatchingPositions = {} => mOut.score = 0

\* one of two comparable options matches, by a value in another case
C16_Witness ==
    /\ mOut.op = "score"
    /\ Cardinality(ComparablePositions) = 2
    /\ Cardinality(MatchingPositions) = 1
    /\ \E p \in MatchingPositions :
          mIn.variants[mOut.k].options[p] # MainMapOf(mIn)[mIn.options[p]]
    /\ mOut.score = 50

\* the main variant with the id asked for
AskedVariant == FindVariant(MatcherMainVariants, mIn.variantId)

\* C17: mapMainProductVariants gives, for a variant id of the main variant
\* list, the mapping from each option name to the variant's value at the
\* option's 1-based position, and the empty mapping for an unknown id.
C17_MappingUsesOptionPosition ==
    mOut.op = "map"
        => IF AskedVariant = NoVariant THEN mOut.map = EmptyMap
           ELSE /\ DOMAIN mOut.map =
                      {mIn.mainOptions[k].name : k \in 1..Len(mIn.mainOptions)}
                /\ \A k \in 1..Len(mIn.mainOptions) :
                      mOut.map[mIn.mainOptions[k].name] =
                      AskedVariant.options[mIn.mainOptions[k].position]

\* the options are listed in another order than their positions
C17_Witness ==
    /\ mOut.op = "map"
    /\ mIn.variantId = "m2"
    /\ mIn.mainOptions[1].position = 2
    /\ mOut.map["Color"] = "Blue"
    /\ mOut.map["Size"] = "Large"

----------------------------------------------------------------------------
(* Properties of parseHideConditions *)

\* the record a well-formed entry stands for
ConditionOf(e) ==
    [optionName |-> <<ToLower(e.name)>>,
     optionValue |-> <<ToLower(e.value)>>,
     upsellProducts |-> [k \in 1..Len(e.products) |-> <<e.products[k]>>]]

\* the records of the well-formed entries of a list, in order
RECURSIVE ConditionsOf(_)
ConditionsOf(entries) ==
    IF entries = << >> THEN << >>
    ELSE (IF Head(entries).kind = "wellFormed"
          THEN <<ConditionOf(Head(entries))>> ELSE << >>)
            \o ConditionsOf(Tail(entries))

Parsed == pOut # NotParsed

AllWellFormed ==
    \A k \in 1..Len(pIn.entries) : pIn.entries[k].kind = "wellFormed"

\* C18: for a string of well-formed entries parseHideConditions returns one
\* record per entry, in input order, with name and value trimmed and
\* lower-cased and the product names trimmed with their case kept.
C18_OneConditionPerWellFormedEntry ==
    (Parsed /\ AllWellFormed /\ pIn.text # Undefined)
        => pOut = ConditionsOf(pIn.entries)

\* "Size:Large[Gift Wrap, extra brush]; Color:Large[Gift Wrap]" written with
\* blanks around the parts of the second entry: two records
C18_Witness ==
    /\ Parsed
    /\ Len(pIn.entries) = 2
    /\ AllWellFormed
    /\ Len(pIn.entries[1].products) = 2
    /\ pIn.entries[2].blanks
    /\ pIn.entries[2].name = "Color"
    /\ Len(pOut) = 2
    /\ pOut[2].optionName = <<"color">>
    /\ pOut[1].upsellProducts = << <<"Gift Wrap">>, <<"extra brush">> >>

\* C19: a malformed entry is dropped and every well-formed entry beside it
\* is still parsed, wherever the malformed entry stands; an empty, blank
\* or missing input gives the empty list.
C19_MalformedEntriesAreDropped ==
    Parsed
        => /\ pOut = ConditionsOf(pIn.entries)
           /\ (pIn.text = Undefined \/ TrimStr(pIn.text) = << >>) => pOut = << >>

\* a malformed entry between two well-formed ones
C19_Witness ==
    /\ Parsed
    /\ Len(pIn.entries) = 3
    /\ pIn.entries[1].kind = "wellFormed"
    /\ pIn.entries[2].kind \in MalformedKinds \ {"empty", "blank"}
    /\ pIn.entries[3].kind = "wellFormed"
    /\ pOut = <<ConditionOf(pIn.entries[1]), ConditionOf(pIn.entries[3])>>

\* every entry is a well-formed one, written tight, with blanks around its
\* parts, or with a blank after its closing bracket
OnlyWhitespaceDiffers ==
    \A k \in 1..Len(pIn.entries) :
        pIn.entries[k].kind \in {"wellFormed", "blankAfterBracket"}

\* C36: whitespace around a hide-condition entry does not change the parse
\* result: an entry with whitespace before its option name or after its
\* closing `]` yields the same record as the entry without that whitespace.
C36_WhitespaceAroundEntryIgnored ==
    (Parsed /\ pIn.text # Undefined /\ OnlyWhitespaceDiffers)
        => pOut = [k \in 1..Len(pIn.entries) |-> ConditionOf(pIn.entries[k])]

----------------------------------------------------------------------------
(* Properties of the cart upsell widget *)

\* the ids in the session-storage list
StoredIn(str) == getDismissedProducts([storage |-> str])

StoredIds == StoredIn(storage)

ReloadHidesStoredItems ==
    lastK.op = "reload"
        => \A i \in KItemSet :
              Includes(StoredIds, KProductId[i]) => itemDisplay[i] = "none"

\* C20 as stated: after a dismiss the item's product id is in the stored
\* list, and a reload hides every item whose id is stored.
C20_Original ==
    /\ lastK.op = "dismiss" => Includes(StoredIds, KProductId[lastK.item])
    /\ ReloadHidesStoredItems

\* C20: after a dismiss whose write the session storage accepts, the item's
\* product id is in the stored list and the item is hidden; a reload hides
\* every item whose id is stored.
C20_DismissPersistsWhenStored ==
    /\ (lastK.op = "dismiss" /\ lastK.accepts)
          => /\ Includes(StoredIds, KProductId[lastK.item])
             /\ itemDisplay[lastK.item] = "none"
    /\ ReloadHidesStoredItems

\* a reload after a dismiss: the fresh DOM has the dismissed item hidden
\* and the other item visible
C20_Witness ==
    /\ lastK.op = "reload"
    /\ StoredIds = <<"p2">>
    /\ itemDisplay = [k1 |-> "", k2 |-> "none"]
    /\ widgetDisplay = ""

AllItemsHidden == \A i \in KItemSet : itemDisplay[i] = "none"

\* C21: a dismiss, a successful add or a hideDismissedItems pass (page load,
\* observer) leaves the widget hidden when no item is visible, and no step
\* of the component hides the widget while an item is visible.
C21_WidgetHiddenWhenNoItemVisible ==
    [][/\ (lastK'.op \in {"dismiss", "added", "reload", "observer"}
              /\ AllItemsHidden')
           => widgetDisplay' = "none"
       /\ (widgetDisplay # "none" /\ widgetDisplay' = "none")
           => AllItemsHidden']_vars

\* the last visible item is dismissed after the other one was added to the
\* cart: the widget is hidden
C21_Witness ==
    /\ lastK.op = "dismiss"
    /\ AllItemsHidden
    /\ widgetDisplay = "none"
    /\ Len(StoredIds) = 2

NoDuplicates(ids) ==
    \A j, k \in 1..Len(ids) : ids[j] = ids[k] => j = k

\* C22: every step but clearDismissedStates keeps each stored id in the
\* stored list, and the list never holds an id twice.
C22_StoredListOnlyGrows ==
    [][/\ lastK'.op # "clear"
           => \A k \in 1..Len(StoredIds) :
                 Includes(StoredIn(storage'), StoredIds[k])
       /\ NoDuplicates(StoredIn(storage'))]_vars

\* an item whose id is already stored is dismissed again after the host
\* re-rendered it, with a second id stored
C22_Witness ==
    /\ lastK.op = "dismiss"
    /\ lastK.item = "k1"
    /\ StoredIds = <<"p1", "p2">>
    /\ \E i \in KItemSet : itemDisplay[i] # "none"

\* C25: once the component has reacted to a re-rendering by the host (no
\* observer callback is outstanding), no item whose product id is stored is
\* visible.
C25_DismissedItemsRehiddenAfterMorph ==
    (lastK.op \in {"morph", "observer"} /\ ~observerPending)
        => \A i \in KItemSet :
              Includes(StoredIds, KProductId[i]) => itemDisplay[i] = "none"

----------------------------------------------------------------------------
(* Properties of the initialisation on malformed page data *)

InitEnded == pc \notin {"idle", "wait", "check"}

\* C23: whichever embedded data block is malformed, init() of a component
\* that stays connected ends normally with the document listeners
\* registered, and the fields of the malformed block are empty.
C23_InitCompletesOnMalformedJson ==
    (InitEnded /\ status = "connected" /\ syncVariants)
        => /\ pc = "done"
           /\ docListening
           /\ badBlock = "mainOptions" => mainProductOptions(Cur) = << >>
           /\ badBlock = "mainVariants" => mainProductVariants(Cur) = << >>
           /\ badBlock \in {"upsellVariants", "upsellOptions"}
                 => /\ upsellVariants(Cur)[BadItem] = << >>
                    /\ upsellOptions(Cur)[BadItem] = << >>

----------------------------------------------------------------------------
(* Properties of the price sync *)

\* the variant's compare-at price is strictly greater than its price
CompareIsGreater(variant) ==
    variant.compare_at_price # NullPrice
        /\ variant.compare_at_price > variant.price

\* the step ends with a run of #syncUpsellProductsBlock that passes its guard
SyncRan ==
    \/ lastOp' = "checkDone" /\ isReady'
    \/ lastOp' = "variantSelected" /\ docListening /\ isReady

----------------------------------------------------------------------------
(* Properties of waitForManager *)

\* C27: waitForManager settles at most once and, once settled, has no timer
\* pending; while it is pending a timer is and fewer than 50 checks ran; it
\* is resolved exactly by the one check that found the manager ready, and
\* rejected by the 50th check, 49 intervals of 100 ms after the call.
C27_WaitForManagerSettlesOnce ==
    /\ settles <= 1
    /\ readyChecks <= 1
    /\ wState = "pending"
          => wTimer /\ settles = 0 /\ readyChecks = 0 /\ attempts < maxAttempts
    /\ wState \in {"resolved", "rejected"} => ~wTimer /\ settles = 1
    /\ wState = "resolved" <=> readyChecks = 1
    /\ wState = "rejected"
          => /\ attempts = 50
             /\ wClock = 49 * 100
             /\ readyChecks = 0
    /\ wState # "idle" => wClock = (attempts - 1) * 100

\* the manager never turned ready in time: rejected by the 50th check
C27_Witness ==
    /\ wState = "rejected"
    /\ attempts = 50
    /\ settles = 1
    /\ ~wTimer

----------------------------------------------------------------------------
(* Properties of the submissions of the product form *)

\* C26: a submission has sent a cart-add request only if isReadyToExport
\* answered it with success and a feature; once isReadyToExport has answered
\* a submission not ready with a feature other than gallery-kit, uploadImage
\* was called and the submission never sends a cart-add request.
C26_CartAddOnlyWhenReady ==
    \A s \in Subs :
       /\ subs[s].requested => subs[s].ready = "ok" /\ subs[s].feature # "none"
       /\ subs[s].hooked => subs[s].ready = "ok"
       /\ subs[s].ready = "notReady"
             => subs[s].upload /\ ~subs[s].requested /\ ~subs[s].hooked
       /\ subs[s].upload => subs[s].ready = "notReady"

\* a submission answered not ready has returned after the upload trigger,
\* while another one, answered ready, went on to the cart API
C26_Witness ==
    \E s, t \in Subs :
       /\ subs[s].pc = "returned" /\ subs[s].ready = "notReady"
       /\ subs[s].upload /\ ~subs[s].requested
       /\ subs[t].requested /\ subs[t].ready = "ok"
       /\ subs[t].feature = "canvas"

\* C28: in each submission the pre-add-to-cart hook has settled before the
\* cart-add request is sent, afterAddToCart is called only after a success
\* response, and a submission with a success response ends with the
\* CartAddEvent dispatched after afterAddToCart settled, normally or by
\* throwing.
C28_SubmissionStepsAreOrdered ==
    \A s \in Subs :
       /\ subs[s].requested => subs[s].hooked
       /\ subs[s].response # "none" => subs[s].requested
       /\ subs[s].after # "none" => subs[s].response = "items"
       /\ subs[s].event = "added"
             => subs[s].response = "items" /\ subs[s].after \in {"ok", "threw"}
       /\ (subs[s].pc = "done" /\ subs[s].response = "items")
             => subs[s].event = "added"
       /\ (subs[s].pc \in {"cartdata", "after"}) => subs[s].event = "none"

\* a successful add whose afterAddToCart threw: the event is dispatched
C28_Witness ==
    \E s \in Subs :
       /\ subs[s].pc = "done"
       /\ subs[s].response = "items"
       /\ subs[s].after = "threw"
       /\ subs[s].event = "added"

\* C29: the control has shown the success state for a submission only if
\* the cart API answered that submission with a success response.
C29_SuccessShownAfterCartSuccess ==
    \A s \in Subs : subs[s].shown => subs[s].response = "items"

\* C30: at most one submission is in progress at any time.
C30_OneSubmissionAtATime ==
    \A s, t \in Subs :
       (subs[s].pc \in InFlight /\ subs[t].pc \in InFlight) => s = t

----------------------------------------------------------------------------
(* Properties of overlapping readiness checks *)

\* every readiness check issued so far has been answered, the last of them
\* just now
AllChecksAnswered ==
    /\ pending = 0
    /\ latest.answer # "none"
    /\ lastOp \in {"initCheck", "checkDone"}

\* C31: when editor state changes arrive while an earlier readiness check
\* still awaits its answer, then once all checks have completed the manager's
\* isReady flag and the hidden items are those the answer to the most
\* recently issued check gives, in whatever order the answers arrived.
C31_LatestCheckWins ==
    AllChecksAnswered
        => LET c == checkReadyToExport(Cur, latest.answer)
           IN  /\ isReady = c.isReady
               /\ hidden = c.hidden

----------------------------------------------------------------------------
(* Properties of the line-item properties of a cart-add request *)

\* the properties that hold a URL of each image a feature needs
UrlProperties(feature) ==
    IF feature = "gallery-kit" THEN {{"_supplier_image"}}
    ELSE {{"preview_image", "_tmp_preview_image"},
          {"_supplier_image", "_tmp_supplier_image"},
          {"_original_image", "_tmp_original_image"}}

\* the properties carry `_feature` and a URL of every image of the feature
CarryUrls(feature, properties) ==
    /\ "_feature" \in properties
    /\ \A group \in UrlProperties(feature) : group \cap properties # {}

\* C32: no cart-add request is sent when the pre-add-to-cart hook does not
\* deliver the image URLs the feature needs (the supplier image for
\* gallery-kit; the preview, original and supplier images otherwise): the
\* properties of every request sent carry `_feature` and those URLs.
C32_RequestCarriesImageUrls ==
    hOut.requested => CarryUrls(hIn.feature, hOut.properties)

----------------------------------------------------------------------------
(* Properties of a cart-upsell add *)

\* what holds of every step of a cart-upsell add, whether or not the storage
\* took the write: a successful response hides the item, dispatches the
\* cart-update event and leaves the button disabled with the reset timer
\* armed; a failed one changes neither the items nor the storage, dispatches
\* nothing and enables the button at once; the button is disabled while
\* the request is in progress and is enabled again by nothing but the reset
\* timer, a failed add or a reload
AddStep ==
    /\ lastK'.op = "added"
          => /\ itemDisplay'[lastK'.item] = "none"
             /\ lastK'.event
             /\ loading'[lastK'.item]
             /\ resetArmed'[lastK'.item]
    /\ lastK'.op = "addFailed"
          => /\ itemDisplay' = itemDisplay
             /\ storage' = storage
             /\ ~lastK'.event
             /\ ~loading'[lastK'.item]
             /\ ~resetArmed'[lastK'.item]
    /\ \A i \in KItemSet :
          /\ addPc'[i] = "fetch" => loading'[i]
          /\ resetArmed'[i] => loading'[i]
          /\ (loading[i] /\ ~loading'[i])
                => \/ lastK'.op \in {"resetTimer", "addFailed"} /\ lastK'.item = i
                   \/ lastK'.op = "reload"

\* C34 as stated: a successful cart-upsell add always stores the product id
\* as dismissed.
C34_Original ==
    [][/\ AddStep
       /\ lastK'.op = "added"
             => Includes(StoredIn(storage'), KProductId[lastK'.item])]_vars

\* C34 (amended): on a successful cart-API response the item is hidden, a
\* cart-update event is dispatched, the button is re-enabled only by the
\* reset timer, and the product id is stored as dismissed when the session
\* storage accepts the write; on a non-OK response or a network failure the
\* item stays visible, nothing is stored, no cart-update event is dispatched
\* and the button is re-enabled at once.  While the request is in progress
\* the button is disabled.
C34_AddOutcomeDecidesItemAndButton ==
    [][/\ AddStep
       /\ (lastK'.op = "added" /\ lastK'.accepts)
             => Includes(StoredIn(storage'), KProductId[lastK'.item])]_vars

\* the reset timer of a successful add has fired: the item is hidden and
\* stored, the button enabled again
C34_Witness ==
    /\ lastK.op = "resetTimer"
    /\ itemDisplay[lastK.item] = "none"
    /\ Includes(StoredIds, KProductId[lastK.item])
    /\ ~loading[lastK.item]

----------------------------------------------------------------------------
(* Properties of one evaluation of the hide conditions *)

\* the items the hide conditions name for a main option mapping: some
\* condition's option name maps, ignoring case, to the condition's value, and
\* the condition lists the item's displayed name, trimmed and ignoring case
HiddenBy(mapping) ==
    {i \in Items :
        \E k \in 1..Len(HideConditions) :
           /\ \E n \in DOMAIN mapping :
                 /\ ToLower(n) = HideConditions[k].optionName
                 /\ ToLower(mapping[n]) = HideConditions[k].optionValue
           /\ \E m \in 1..Len(HideConditions[k].upsellProducts) :
                 ToLower(HideConditions[k].upsellProducts[m]) =
                 ToLower(Trim(ItemTitle[i]))}

\* the main option mapping of a variant, from the data the component holds
LoadedMapping(v) ==
    mapMainProductVariants(v, mainProductOptions(Cur), mainProductVariants(Cur))

\* this step evaluates the hide conditions with the bridge ready: a readiness
\* check that answers success, or a handled variant-selected event
Evaluates ==
    \/ lastOp' \in {"initCheck", "checkDone"} /\ isReady'
    \/ lastOp' = "variantSelected" /\ docListening /\ isReady

\* the main option mapping the evaluation of this step is given
EvaluatedMapping ==
    IF lastOp' = "variantSelected" THEN LoadedMapping(mainSelected')
    ELSE LoadedMapping(InitialVariantId)

\* C35: one evaluation of the hide conditions (bridge ready) leaves an item
\* hidden if and only if some hide condition's option name maps, ignoring
\* case, to that condition's value in the given main option mapping and the
\* condition lists the item's displayed name (trimmed, ignoring case); an
\* item hidden before that no longer matches is shown again and its checkbox
\* stays unchecked.
C35_EvaluationHidesExactlyMatches ==
    [][Evaluates
          => /\ hidden' = HiddenBy(EvaluatedMapping)
             /\ \A i \in Items : (display'[i] = "none") = (i \in hidden')
             /\ \A i \in hidden \ hidden' : ~checked'[i]]_vars

\* the shopper went from Large to Small: the item hidden for Large is shown
\* again, unchecked, and the item listed in lower case for Small is hidden
C35_Witness ==
    /\ lastOp = "variantSelected"
    /\ heard = "m1"
    /\ isReady
    /\ dataLoaded
    /\ hidden = {"u1"}
    /\ modeAtHide["u2"] # ""
    /\ display["u2"] # "none"
    /\ ~checked["u2"]

----------------------------------------------------------------------------
(* Properties of the AddToCartComponent's state-change subscription *)

\* C38: an AddToCartComponent holds at most one bridge state-change
\* subscription however many times its button is clicked, and after an
\* `upload-state:loading` notification the button is disabled until an
\* `upload-state:success` notification enables it again.
C38_OneSubscriptionAndUploadDisables ==
    /\ aQueued + aHandlers <= 1
    /\ (aHandlers > 0 /\ aUpload = "loading") => aDisabled

----------------------------------------------------------------------------
(* Properties of showing an item that is not hidden *)

\* the display mode the page computes for an item from its inline style
DisplayOf(inline, i) == IF inline[i] = "" THEN CssDisplay[i] ELSE inline[i]

\* this step shows items: a call of showUpsellProduct, or an evaluation with
\* the bridge ready, which opens with showAllUpsellProducts and with the
\* show-all step of #checkIndividualHideConditions
ShowsItems == ShowCall \/ Evaluates

\* C39: showing an upsell item that is not hidden (showUpsellProduct,
\* showAllUpsellProducts, and the show-all step that opens every
\* hide-condition evaluation) leaves that item's display mode unchanged, also
\* when no item has been hidden before.
C39_ShowingVisibleItemKeepsDisplay ==
    [][ShowsItems
          => \A i \in Items :
                (i \notin hidden /\ i \notin hidden')
                   => DisplayOf(display', i) = DisplayOf(display, i)]_vars

=============================================================================
